---------------------------- MODULE Spec2Model ----------------------------
(***************************************************************************)
(* A model of the session registry (game.Manager) and the board engine     *)
(* (models.Game) of the four-in-a-row server.                              *)
(*                                                                         *)
(* Every method of game.Manager runs under m.mutex from its first to its   *)
(* last statement, so each is one atomic action here.  Pointers to Player  *)
(* records are modelled by embedding the record in its game: every caller  *)
(* of CreateGame passes two Player objects allocated for that one match    *)
(* (Matchmaker.JoinQueue and game.NewBot), so a Player belongs to at most  *)
(* one game.  Optional (pointer) fields are sequences of length 0 or 1.    *)
(***************************************************************************)
EXTENDS Integers, Sequences, FiniteSets, TLC

VARIABLES
  games,     \* Manager.games : game id -> Game
  players,   \* Manager.players : player id -> PlayerConnection
  mutex,     \* Manager.mutex : who holds it between actions
  now,       \* the wall clock read by time.Now(), in seconds
  nextUUID,  \* the next value uuid.New() hands out
  ret,       \* the last call of CreateGame / MakeMove and what it returned
  played,    \* history: per game, the columns of the moves applied so far
  probe,     \* a Game handed to the board engine on its own
  answer,    \* what the board engine returned for probe
  sent,      \* the messages the sweep handed to BroadcastToGame, in order
  queue,     \* Matchmaker.queue: the entries waiting, in order of arrival
  timers,    \* per player that joined: its BotTimer and when it was armed
  notified,  \* the game_found messages written, in order
  drivers,   \* the bot drivers started: game and bot
  due,       \* the matchmaker's ticker has ticked and its pass has not run
  entries,        \* Queue.entries of the MatchmakingService: id -> entry
  addChan,        \* Queue.addChan: entries sent and not yet received
  removeChan,     \* Queue.removeChan: ids sent and not yet received
  joinRequests,   \* MatchmakingService.joinRequests, in order
  leaveRequests,  \* MatchmakingService.leaveRequests, in order
  calls,          \* the calls of JoinQueue / LeaveQueue and where each stands
  botTimers,      \* the BotTimer of every entry handleJoinRequest made
  matches,        \* the matches GameCreator.CreateGame returned, in order
  pass,           \* processMatches: its snapshot and index, while it runs
  botAI,          \* runBotAI: where the goroutine of each bot game stands
  queueMutex,     \* Matchmaker.mutex : who holds it between actions
  conns,          \* the websocket connections accepted: each handler's position
  entriesMutex,   \* Queue.mutex: who holds it between actions
  statsMutex,     \* QueueStats.mutex: the callers that hold its read lock
  stats,          \* Queue.stats: the counters
  getStats        \* the callers of Queue.GetStats and where each stands

vars ==
  <<games, players, mutex, now, nextUUID, ret, played, probe, answer, sent,
    queue, timers, notified, drivers, due, entries, addChan, removeChan,
    joinRequests, leaveRequests, calls, botTimers, matches, pass, botAI,
    queueMutex, conns, entriesMutex, statsMutex, stats, getStats>>
serviceVars ==
  <<entries, addChan, removeChan, joinRequests, leaveRequests, calls,
    botTimers, matches, pass>>
engineVars == <<probe, answer>>
driverVars == <<botAI>>
lockVars == <<queueMutex>>
handlerVars == <<conns>>
statsVars == <<entriesMutex, statsMutex, stats, getStats>>
\* What the registry's callers and collaborators hold.
matchVars == <<queue, timers, notified, drivers, due>>
otherVars == <<sent, matchVars>>

---------------------------------------------------------------------------
(* Program constants *)

\* The goroutines that call Queue.GetStats.
StatsCallers == {"caller1", "caller2"}

Rows == 6
Cols == 7
WinLength == 4

PlayerRed == 0
PlayerYellow == 1

GameStateWaiting == 0
GameStatePlaying == 1
GameStateFinished == 2

GracePeriod == 30

NilUUID == 0

ErrNone == "nil"
ErrGameNotFound == "game not found"
ErrGameNotActive == "game is not active"
ErrPlayerNotInGame == "player not in game"
ErrNotPlayerTurn == "not player's turn"
ErrInvalidMove == "invalid move"

None == <<>>
Some(x) == <<x>>

\* answer before the board engine was called.
NoAnswer == [fn |-> "none"]

---------------------------------------------------------------------------
(* Bounds of the exploration *)

\* At most this many games are created.
MaxGames == 1
\* The clients submit the columns of one of the Lines below, and leave the
\* line they follow by at most this many applied moves.
MaxDeviation == 1
\* The clock stops advancing here.
MaxTime == 31

---------------------------------------------------------------------------
(* Board engine: models.Game *)

EmptyBoard == [r \in 0..(Rows - 1) |-> [c \in 0..(Cols - 1) |-> 0]]

IsValidMove(g, column) ==
  IF column < 0 \/ column >= Cols
    THEN FALSE
    ELSE g.Board[0][column] = 0

\* Mutant: the row is taken without testing that its cell is empty.
MutLowestEmptyRowUntested(board, column, r) ==
  IF r < 0 THEN -1 ELSE r

\* Mutant: the column is scanned from the top row.
MutLowestEmptyRowFromTop(board, column, r) ==
  IF board[0][column] = 0 THEN 0 ELSE -1

\* The loop "for r := 5; r >= 0; r--" of Game.MakeMove, entered at row r.
RECURSIVE LowestEmptyRow(_, _, _)
LowestEmptyRow(board, column, r) ==
  IF r < 0 THEN -1
  ELSE IF board[r][column] = 0 THEN r
  ELSE LowestEmptyRow(board, column, r - 1)

NewMove(column, row, color, t) ==
  [PlayerID |-> NilUUID, Column |-> column, Row |-> row, Color |-> color,
   Timestamp |-> t]

\* Mutant: the move is recorded as the last move before the column is checked.
MutGameMakeMoveRecordsFirst(g, column, color, t) ==
  LET row == IF IsValidMove(g, column)
               THEN LowestEmptyRow(g.Board, column, Rows - 1)
               ELSE -1
      move == NewMove(column, row, color, t)
  IN  IF row = -1
        THEN [game |-> [g EXCEPT !.LastMove = Some(move)], move |-> None]
        ELSE [game |-> [g EXCEPT !.Board[row][column] = color + 1,
                                 !.LastMove = Some(move)],
              move |-> Some(move)]

\* Game.MakeMove: the game afterwards and the *Move returned (None for nil).
GameMakeMove(g, column, color, t) ==
  IF ~IsValidMove(g, column)
    THEN [game |-> g, move |-> None]
    ELSE LET row == LowestEmptyRow(g.Board, column, Rows - 1)
         IN  IF row = -1
               THEN [game |-> g, move |-> None]
               ELSE LET move == NewMove(column, row, color, t)
                    IN  [game |-> [g EXCEPT !.Board[row][column] = color + 1,
                                            !.LastMove = Some(move)],
                         move |-> Some(move)]

checkLine(g, startRow, startCol, deltaRow, deltaCol, player) ==
  \A i \in 0..(WinLength - 1) :
    LET row == startRow + i * deltaRow
        col == startCol + i * deltaCol
    IN  IF row < 0 \/ row >= Rows \/ col < 0 \/ col >= Cols
          THEN FALSE
          ELSE g.Board[row][col] = player

\* Mutant: a row of four may not start in column 3.
MutCellWinnerNarrow(g, row, col) ==
  LET player == g.Board[row][col]
  IN  IF player = 0 THEN None
      ELSE IF col < 3 /\ checkLine(g, row, col, 0, 1, player)
        THEN Some(player - 1)
      ELSE IF row <= 2 /\ checkLine(g, row, col, 1, 0, player)
        THEN Some(player - 1)
      ELSE IF row <= 2 /\ col <= 3 /\ checkLine(g, row, col, 1, 1, player)
        THEN Some(player - 1)
      ELSE IF row <= 2 /\ col >= 3 /\ checkLine(g, row, col, 1, -1, player)
        THEN Some(player - 1)
      ELSE None

\* The body of CheckWinner's two loops for one cell.
CellWinner(g, row, col) ==
  LET player == g.Board[row][col]
  IN  IF player = 0 THEN None
      ELSE IF col <= 3 /\ checkLine(g, row, col, 0, 1, player)
        THEN Some(player - 1)
      ELSE IF row <= 2 /\ checkLine(g, row, col, 1, 0, player)
        THEN Some(player - 1)
      ELSE IF row <= 2 /\ col <= 3 /\ checkLine(g, row, col, 1, 1, player)
        THEN Some(player - 1)
      ELSE IF row <= 2 /\ col >= 3 /\ checkLine(g, row, col, 1, -1, player)
        THEN Some(player - 1)
      ELSE None

\* CheckWinner's scan, entered at cell k = row * 7 + col.
RECURSIVE ScanFrom(_, _)
ScanFrom(g, k) ==
  IF k >= Rows * Cols THEN None
  ELSE LET w == CellWinner(g, k \div Cols, k % Cols)
       IN  IF w # None THEN w ELSE ScanFrom(g, k + 1)

CheckWinner(g) == ScanFrom(g, 0)

\* Mutant: one full column is taken for a full board.
MutIsBoardFullAnyColumn(g) == \E col \in 0..(Cols - 1) : g.Board[0][col] # 0

IsBoardFull(g) == \A col \in 0..(Cols - 1) : g.Board[0][col] # 0

---------------------------------------------------------------------------
(* Session registry: game.Manager *)

\* A Player as Matchmaker.JoinQueue allocates it: Color and Number still zero.
NewPlayer(id, t) ==
  [ID |-> id, Color |-> 0, Number |-> 0, IsBot |-> FALSE, Connected |-> TRUE,
   LastSeen |-> t]

\* Mutant: the opening turn goes to the second color.
MutCreateGameYellowOpens(id, player1, player2, t) ==
  [ID |-> id,
   State |-> GameStatePlaying,
   Board |-> EmptyBoard,
   Players |-> << [player1 EXCEPT !.Color = PlayerRed, !.Number = 1],
                  [player2 EXCEPT !.Color = PlayerYellow, !.Number = 2] >>,
   CurrentTurn |-> PlayerYellow,
   CurrentTurnNumber |-> 2,
   Winner |-> None,
   CreatedAt |-> t,
   FinishedAt |-> None,
   LastMove |-> None]

\* Manager.CreateGame: the Game it builds and stores.
CreateGame(id, player1, player2, t) ==
  [ID |-> id,
   State |-> GameStatePlaying,
   Board |-> EmptyBoard,
   Players |-> << [player1 EXCEPT !.Color = PlayerRed, !.Number = 1],
                  [player2 EXCEPT !.Color = PlayerYellow, !.Number = 2] >>,
   CurrentTurn |-> PlayerRed,
   CurrentTurnNumber |-> 1,
   Winner |-> None,
   CreatedAt |-> t,
   FinishedAt |-> None,
   LastMove |-> None]

\* The loop "for _, p := range game.Players" of Manager.MakeMove, entered at
\* index i: the index of the first player with this ID, 0 when there is none.
RECURSIVE FindPlayer(_, _, _)
FindPlayer(g, playerID, i) ==
  IF i > Len(g.Players) THEN 0
  ELSE IF g.Players[i].ID = playerID THEN i
  ELSE FindPlayer(g, playerID, i + 1)

\* Mutant: the turn is not switched after a move.
MutSettleMoveKeepsTurn(g, t) ==
  LET winner == CheckWinner(g)
  IN  IF winner # None
        THEN [g EXCEPT !.Winner = winner,
                       !.State = GameStateFinished,
                       !.FinishedAt = Some(t)]
      ELSE IF IsBoardFull(g)
        THEN [g EXCEPT !.State = GameStateFinished,
                       !.FinishedAt = Some(t)]
      ELSE g

\* Mutant: the full board is tested before the winner.
MutSettleMoveDrawFirst(g, t) ==
  LET winner == CheckWinner(g)
  IN  IF IsBoardFull(g)
        THEN [g EXCEPT !.State = GameStateFinished,
                       !.FinishedAt = Some(t)]
      ELSE IF winner # None
        THEN [g EXCEPT !.Winner = winner,
                       !.State = GameStateFinished,
                       !.FinishedAt = Some(t)]
      ELSE IF g.CurrentTurn = PlayerRed
        THEN [g EXCEPT !.CurrentTurn = PlayerYellow, !.CurrentTurnNumber = 2]
        ELSE [g EXCEPT !.CurrentTurn = PlayerRed, !.CurrentTurnNumber = 1]

\* Mutant: the color recorded as winner is the other one.
MutSettleMoveOtherWinner(g, t) ==
  LET winner == CheckWinner(g)
  IN  IF winner # None
        THEN [g EXCEPT !.Winner = Some(1 - winner[1]),
                       !.State = GameStateFinished,
                       !.FinishedAt = Some(t)]
      ELSE IF IsBoardFull(g)
        THEN [g EXCEPT !.State = GameStateFinished,
                       !.FinishedAt = Some(t)]
      ELSE IF g.CurrentTurn = PlayerRed
        THEN [g EXCEPT !.CurrentTurn = PlayerYellow, !.CurrentTurnNumber = 2]
        ELSE [g EXCEPT !.CurrentTurn = PlayerRed, !.CurrentTurnNumber = 1]

\* Manager.MakeMove after the move was placed: win, draw or switch turns.
SettleMove(g, t) ==
  LET winner == CheckWinner(g)
  IN  IF winner # None
        THEN [g EXCEPT !.Winner = winner,
                       !.State = GameStateFinished,
                       !.FinishedAt = Some(t)]
      ELSE IF IsBoardFull(g)
        THEN [g EXCEPT !.State = GameStateFinished,
                       !.FinishedAt = Some(t)]
      ELSE IF g.CurrentTurn = PlayerRed
        THEN [g EXCEPT !.CurrentTurn = PlayerYellow, !.CurrentTurnNumber = 2]
        ELSE [g EXCEPT !.CurrentTurn = PlayerRed, !.CurrentTurnNumber = 1]

\* Mutant: the player is looked up before the state of the game is tested.
MutCheckRequestPlayerFirst(gs, gameID, playerID) ==
  IF gameID \notin DOMAIN gs THEN ErrGameNotFound
  ELSE IF FindPlayer(gs[gameID], playerID, 1) = 0 THEN ErrPlayerNotInGame
  ELSE IF gs[gameID].State # GameStatePlaying THEN ErrGameNotActive
  ELSE IF gs[gameID].Players[FindPlayer(gs[gameID], playerID, 1)].Color
            # gs[gameID].CurrentTurn
    THEN ErrNotPlayerTurn
  ELSE ErrNone

\* Manager.MakeMove before it touches the board: the first error that applies
\* among unknown game, game not active, player not in game and not the
\* player's turn.
CheckRequest(gs, gameID, playerID) ==
  IF gameID \notin DOMAIN gs THEN ErrGameNotFound
  ELSE IF gs[gameID].State # GameStatePlaying THEN ErrGameNotActive
  ELSE IF FindPlayer(gs[gameID], playerID, 1) = 0 THEN ErrPlayerNotInGame
  ELSE IF gs[gameID].Players[FindPlayer(gs[gameID], playerID, 1)].Color
            # gs[gameID].CurrentTurn
    THEN ErrNotPlayerTurn
  ELSE ErrNone

\* Manager.MakeMove: the registry afterwards, the *Move and the error returned.
ManagerMakeMove(gs, gameID, playerID, column, t) ==
  LET err == CheckRequest(gs, gameID, playerID) IN
  IF err # ErrNone
    THEN [games |-> gs, move |-> None, err |-> err]
  ELSE LET game == gs[gameID]
           player == game.Players[FindPlayer(game, playerID, 1)]
           r == GameMakeMove(game, column, player.Color, t)
       IN
  IF r.move = None
    THEN [games |-> [gs EXCEPT ![gameID] = r.game], move |-> None,
          err |-> ErrInvalidMove]
  ELSE LET move == [r.move[1] EXCEPT !.PlayerID = playerID]
           \* move and game.LastMove are the same *Move
           placed == [r.game EXCEPT !.LastMove = Some(move)]
       IN  [games |-> [gs EXCEPT ![gameID] = SettleMove(placed, t)],
            move |-> Some(move), err |-> ErrNone]

\* Mutant: a connection that is bound refreshes LastSeen and leaves the flag of
\* a disconnected player as it was.
MutMarkPlayerStaysDisconnected(g, playerID, connected, t) ==
  LET i == FindPlayer(g, playerID, 1)
  IN  IF i = 0 THEN g
      ELSE [g EXCEPT !.Players[i].Connected = connected /\ @,
                     !.Players[i].LastSeen = t]

\* Manager.AddPlayerConnection: the player's flags in its game.
MarkPlayer(g, playerID, connected, t) ==
  LET i == FindPlayer(g, playerID, 1)
  IN  IF i = 0 THEN g
      ELSE [g EXCEPT !.Players[i].Connected = connected,
                     !.Players[i].LastSeen = t]

\* Mutant: the grace period itself counts as too long.
MutStaleAtGrace(p, t) == ~p.Connected /\ t - p.LastSeen >= GracePeriod

\* cleanupDisconnectedPlayers: a player disconnected for longer than the grace
\* period.
Stale(p, t) == ~p.Connected /\ t - p.LastSeen > GracePeriod

\* Mutant: the sweep does not skip the games that are over.
MutNeedsForfeitAnyState(g, t) ==
  \E i \in 1..Len(g.Players) : Stale(g.Players[i], t)

NeedsForfeit(g, t) ==
  /\ g.State = GameStatePlaying
  /\ \E i \in 1..Len(g.Players) : Stale(g.Players[i], t)

\* The loop "for _, p := range game.Players { if p.Connected ..." entered at i.
RECURSIVE ConnectedWinner(_, _)
ConnectedWinner(g, i) ==
  IF i > Len(g.Players) THEN g.Winner
  ELSE IF g.Players[i].Connected THEN Some(g.Players[i].Color)
  ELSE ConnectedWinner(g, i + 1)

Forfeit(g, t) ==
  [g EXCEPT !.State = GameStateFinished,
            !.FinishedAt = Some(t),
            !.Winner = ConnectedWinner(g, 1)]

\* The game_end message cleanupDisconnectedPlayers builds for a forfeited
\* game: Winner is the *Player of the payload (None for nil).
GameEndMessage(gameID) ==
  [Type |-> "game_end", GameID |-> gameID, Winner |-> None,
   Reason |-> "Player disconnected", Duration |-> 0, IsDraw |-> FALSE]

---------------------------------------------------------------------------
(* The clients: which calls the exploration submits *)

\* Complete games the clients follow.  DrawLine fills the board without a
\* winner; LastCellLine is the same game with the last two moves exchanged, so
\* that Yellow's 42nd piece completes a row; the others are short wins.  Each
\* line ends with one more column, sent after the game is over.
DrawLine ==
  << 4, 1, 6, 2, 1, 0, 1, 4, 4, 2, 4, 1, 3, 6, 3, 3, 1, 0, 4, 6, 6,
     1, 2, 3, 2, 3, 2, 2, 6, 5, 5, 0, 5, 4, 6, 5, 5, 5, 0, 0, 3, 0, 0 >>
LastCellLine ==
  << 4, 1, 6, 2, 1, 0, 1, 4, 4, 2, 4, 1, 3, 6, 3, 3, 1, 0, 4, 6, 6,
     1, 2, 3, 2, 3, 2, 2, 6, 5, 5, 0, 5, 4, 6, 5, 5, 5, 0, 0, 0, 3, 3 >>
BottomRowLine == << 0, 0, 1, 1, 2, 2, 3, 3 >>
ColumnLine == << 0, 1, 0, 1, 0, 1, 2, 1, 1 >>
DownRightLine == << 0, 0, 0, 1, 0, 0, 3, 1, 1, 2, 2, 2 >>
DownLeftLine == << 4, 3, 5, 4, 5, 5, 6, 6, 6, 6, 6 >>

Lines ==
  { DrawLine, LastCellLine, BottomRowLine, ColumnLine, DownRightLine,
    DownLeftLine }

\* The columns a client may send: every column of the board and one out of
\* range on either side.
ColumnInputs == (-1)..Cols

\* The lines followed while connections come and go.
SessionLines == { DrawLine, LastCellLine, BottomRowLine }

\* h is the beginning of one of the lines.
OnLine(h, lines) ==
  \E line \in lines : Len(h) <= Len(line) /\ SubSeq(line, 1, Len(h)) = h

\* h leaves the lines by at most d moves.
WithinDeviation(h, lines, d) ==
  \E k \in 0..d : k <= Len(h) /\ OnLine(SubSeq(h, 1, Len(h) - k), lines)

History(gameID) == IF gameID \in DOMAIN played THEN played[gameID] ELSE << >>

\* The columns sent for a game when its moves may leave the lines by d.
TryColumns(gameID, lines, d) ==
  { c \in ColumnInputs :
      WithinDeviation(Append(History(gameID), c), lines, d) }

PlayerIDs == { games[g].Players[i].ID : g \in DOMAIN games, i \in 1..2 }

\* The ids a client may send: every id in use and one that is not.
GameInputs == DOMAIN games \cup {nextUUID}
PlayerInputs == PlayerIDs \cup {nextUUID}

\* The clock advances by the grace period or by a second more.
TickSteps == {GracePeriod, GracePeriod + 1}

---------------------------------------------------------------------------
(* Actions *)

\* ret: the call (op, and for MakeMove its game, player and column, for
\* CreateGame the ids of player1 and player2 in withPlayers) and its result.
NoCall ==
  [op |-> "none", gameID |-> NilUUID, playerID |-> NilUUID, column |-> 0,
   withPlayers |-> << >>, err |-> ErrNone, move |-> None]

Init ==
  /\ games = [g \in {} |-> None]
  /\ players = [p \in {} |-> None]
  /\ mutex = "unlocked"
  /\ now = 0
  /\ nextUUID = 1
  /\ ret = NoCall
  /\ played = [g \in {} |-> << >>]
  /\ probe = None
  /\ answer = NoAnswer
  /\ sent = << >>
  /\ queue = << >>
  /\ timers = [p \in {} |-> None]
  /\ notified = << >>
  /\ drivers = {}
  /\ due = FALSE
  /\ entries = [p \in {} |-> None]
  /\ addChan = << >>
  /\ removeChan = << >>
  /\ joinRequests = << >>
  /\ leaveRequests = << >>
  /\ calls = << >>
  /\ botTimers = << >>
  /\ matches = << >>
  /\ pass = None
  /\ botAI = [g \in {} |-> "ticker"]
  /\ queueMutex = "unlocked"
  /\ conns = << >>
  /\ entriesMutex = "unlocked"
  /\ statsMutex = {}
  /\ stats = [TotalJoined |-> 0, TotalLeft |-> 0, CurrentSize |-> 0]
  /\ getStats = [c \in StatsCallers |-> [pc |-> "idle", result |-> << >>]]

\* Manager.CreateGame, called with two players that joined the queue.
CreateGameCall ==
  /\ mutex = "unlocked"
  /\ Cardinality(DOMAIN games) < MaxGames
  /\ LET player1 == NewPlayer(nextUUID, now)
         player2 == NewPlayer(nextUUID + 1, now)
         id == nextUUID + 2
     IN  /\ games' = games @@ (id :> CreateGame(id, player1, player2, now))
         /\ played' = played @@ (id :> << >>)
         /\ ret' = [NoCall EXCEPT !.op = "CreateGame", !.gameID = id,
                                  !.withPlayers = <<player1.ID, player2.ID>>]
  /\ nextUUID' = nextUUID + 3
  /\ UNCHANGED <<players, mutex, now, engineVars, serviceVars, statsVars, handlerVars, driverVars, lockVars, otherVars>>

MakeMove(gameID, playerID, column) ==
  /\ mutex = "unlocked"
  /\ \E r \in {ManagerMakeMove(games, gameID, playerID, column, now)} :
         /\ games' = r.games
         /\ ret' = [NoCall EXCEPT !.op = "MakeMove", !.gameID = gameID,
                                  !.playerID = playerID, !.column = column,
                                  !.err = r.err, !.move = r.move]
         /\ played' = IF r.err = ErrNone
                        THEN [played EXCEPT ![gameID] = Append(@, column)]
                        ELSE played
  /\ UNCHANGED <<players, mutex, now, nextUUID, engineVars, serviceVars, statsVars, handlerVars, driverVars, lockVars, otherVars>>

AddPlayerConnection(playerID, gameID) ==
  /\ mutex = "unlocked"
  /\ players' = [p \in DOMAIN players \cup {playerID} |->
                   IF p = playerID
                     THEN [PlayerID |-> playerID, GameID |-> gameID,
                           LastSeen |-> now]
                     ELSE players[p]]
  /\ games' = IF gameID \in DOMAIN games
                THEN [games EXCEPT
                        ![gameID] = MarkPlayer(@, playerID, TRUE, now)]
                ELSE games
  /\ UNCHANGED <<mutex, now, nextUUID, ret, played, engineVars, serviceVars, statsVars, handlerVars, driverVars, lockVars, otherVars>>

RemovePlayerConnection(playerID) ==
  /\ mutex = "unlocked"
  /\ IF playerID \in DOMAIN players
       THEN LET gameID == players[playerID].GameID
            IN  /\ games' = IF gameID \in DOMAIN games
                              THEN [games EXCEPT
                                      ![gameID] =
                                        MarkPlayer(@, playerID, FALSE, now)]
                              ELSE games
                /\ players' = [p \in DOMAIN players \ {playerID} |->
                                 players[p]]
       ELSE UNCHANGED <<games, players>>
  /\ UNCHANGED <<mutex, now, nextUUID, ret, played, engineVars, serviceVars, statsVars, handlerVars, driverVars, lockVars, otherVars>>

\* Manager.cleanupDisconnectedPlayers.  The first game it forfeits makes it call
\* BroadcastToGame, whose RLock waits for the Lock this goroutine holds: the
\* sweep stops there with the mutex held.
cleanupDisconnectedPlayers ==
  /\ mutex = "unlocked"
  /\ IF \E g \in DOMAIN games : NeedsForfeit(games[g], now)
       THEN \E g \in DOMAIN games :
              /\ NeedsForfeit(games[g], now)
              /\ games' = [games EXCEPT ![g] = Forfeit(@, now)]
              /\ sent' = Append(sent, GameEndMessage(g))
              /\ mutex' = "cleanup"
       ELSE UNCHANGED <<games, mutex, sent>>
  /\ UNCHANGED <<players, now, nextUUID, ret, played, engineVars, serviceVars, statsVars, handlerVars, driverVars, lockVars, matchVars>>

Tick ==
  \E d \in TickSteps :
    /\ now + d <= MaxTime
    /\ now' = now + d
    /\ UNCHANGED <<games, players, mutex, nextUUID, ret, played, engineVars, serviceVars, statsVars, handlerVars, driverVars, lockVars, otherVars>>

\* A move request from any client, for any game id.
MoveCall ==
  \E gameID \in GameInputs :
    \E column \in TryColumns(gameID, Lines, MaxDeviation) :
      \E playerID \in PlayerInputs : MakeMove(gameID, playerID, column)

\* A move request from one of the two players of a game, following a line.
PlayerMoveCall ==
  \E gameID \in DOMAIN games :
    \E column \in TryColumns(gameID, SessionLines, 0) :
      \E i \in 1..2 : MakeMove(gameID, games[gameID].Players[i].ID, column)

ConnectCall ==
  \E gameID \in DOMAIN games, i \in 1..2 :
    AddPlayerConnection(games[gameID].Players[i].ID, gameID)

DisconnectCall ==
  \E playerID \in PlayerIDs : RemovePlayerConnection(playerID)

\* Play: games are created and moves are submitted, near the lines.
Next ==
  \/ CreateGameCall
  \/ MoveCall

Spec == Init /\ [][Next]_vars

\* Sessions: play along the lines, with connections coming and going, the
\* clock advancing and the disconnect sweep running.
NextSession ==
  \/ CreateGameCall
  \/ PlayerMoveCall
  \/ ConnectCall
  \/ DisconnectCall
  \/ cleanupDisconnectedPlayers
  \/ Tick

SpecSession == Init /\ [][NextSession]_vars

\* The same, with the scheduling cleanupRoutine gives the sweep: its ticker
\* keeps ticking, and a sweep that can take the mutex runs.
SpecSessionFair ==
  /\ Init /\ [][NextSession]_vars
  /\ WF_vars(cleanupDisconnectedPlayers)

---------------------------------------------------------------------------
(* The board engine on its own: boards handed to IsValidMove, MakeMove,       *)
(* CheckWinner and IsBoardFull                                                *)

\* The four directions in which four cells make a line.
Directions == { <<0, 1>>, <<1, 0>>, <<1, 1>>, <<1, -1>> }

InBoard(row, col) == row >= 0 /\ row < Rows /\ col >= 0 /\ col < Cols

\* A run of len cells of one color from (row, col) in direction dir.
Segments(lens, colors) ==
  { s \in [row : 0..(Rows - 1), col : 0..(Cols - 1), dir : Directions,
           len : lens, color : colors] :
      InBoard(s.row + (s.len - 1) * s.dir[1], s.col + (s.len - 1) * s.dir[2]) }

SegmentCells(s) ==
  { <<s.row + i * s.dir[1], s.col + i * s.dir[2]>> : i \in 0..(s.len - 1) }

NoSegment ==
  [row |-> 0, col |-> 0, dir |-> <<0, 1>>, len |-> 0, color |-> PlayerRed]

\* The pieces lying under a segment: no four of them in a line.
Filler(row, col) == IF ((col \div 2) + row) % 2 = 0 THEN 1 ELSE 2

\* The board holding two segments, the second over the first, and the filler
\* under them, so that no piece floats.
BoardOf(s1, s2) ==
  LET cells1 == SegmentCells(s1)
      cells2 == SegmentCells(s2)
  IN  [r \in 0..(Rows - 1) |-> [c \in 0..(Cols - 1) |->
        IF <<r, c>> \in cells2 THEN s2.color + 1
        ELSE IF <<r, c>> \in cells1 THEN s1.color + 1
        ELSE IF \E cell \in cells1 \cup cells2 : cell[2] = c /\ cell[1] < r
          THEN Filler(r, c)
        ELSE 0]]

\* First segments: every run of three or four, of either color.  Second
\* segments: none, or a run of four of either color from one of a few cells.
SegmentLengths == {WinLength - 1, WinLength}
Anchors == { <<0, 0>>, <<0, 3>>, <<2, 3>>, <<5, 3>> }
FirstSegments == Segments(SegmentLengths, {PlayerRed, PlayerYellow})
SecondSegments ==
  {NoSegment} \cup
  { s \in Segments({WinLength}, {PlayerRed, PlayerYellow}) :
      <<s.row, s.col>> \in Anchors }

TestBoards == { BoardOf(s1, s2) : s1 \in FirstSegments, s2 \in SecondSegments }

ProbeGame(board) ==
  [CreateGame(NilUUID, NewPlayer(NilUUID, 0), NewPlayer(NilUUID, 0), 0)
     EXCEPT !.Board = board]

InitBoards ==
  /\ games = [g \in {} |-> None]
  /\ players = [p \in {} |-> None]
  /\ mutex = "unlocked"
  /\ now = 0
  /\ nextUUID = 1
  /\ ret = NoCall
  /\ played = [g \in {} |-> << >>]
  /\ probe \in { ProbeGame(b) : b \in TestBoards }
  /\ answer = NoAnswer
  /\ sent = << >>
  /\ queue = << >>
  /\ timers = [p \in {} |-> None]
  /\ notified = << >>
  /\ drivers = {}
  /\ due = FALSE
  /\ entries = [p \in {} |-> None]
  /\ addChan = << >>
  /\ removeChan = << >>
  /\ joinRequests = << >>
  /\ leaveRequests = << >>
  /\ calls = << >>
  /\ botTimers = << >>
  /\ matches = << >>
  /\ pass = None
  /\ botAI = [g \in {} |-> "ticker"]
  /\ queueMutex = "unlocked"
  /\ conns = << >>
  /\ entriesMutex = "unlocked"
  /\ statsMutex = {}
  /\ stats = [TotalJoined |-> 0, TotalLeft |-> 0, CurrentSize |-> 0]
  /\ getStats = [c \in StatsCallers |-> [pc |-> "idle", result |-> << >>]]

registryVars ==
  <<games, players, mutex, now, nextUUID, ret, played, otherVars,
    serviceVars, statsVars, handlerVars, driverVars, lockVars>>

\* Each probe is handed to one function, once.
CheckWinnerProbe ==
  /\ answer = NoAnswer
  /\ answer' = [fn |-> "CheckWinner", winner |-> CheckWinner(probe)]
  /\ UNCHANGED <<probe, registryVars>>

IsBoardFullProbe ==
  /\ answer = NoAnswer
  /\ answer' = [fn |-> "IsBoardFull", full |-> IsBoardFull(probe)]
  /\ UNCHANGED <<probe, registryVars>>

\* IsValidMove, then MakeMove, for one column and color.
MakeMoveProbe ==
  \E column \in ColumnInputs, color \in {PlayerRed, PlayerYellow} :
    /\ answer = NoAnswer
    /\ answer' = [fn |-> "MakeMove", column |-> column, color |-> color,
                  valid |-> IsValidMove(probe, column),
                  made |-> GameMakeMove(probe, column, color, now)]
    /\ UNCHANGED <<probe, registryVars>>

NextBoards ==
  \/ CheckWinnerProbe
  \/ IsBoardFullProbe
  \/ MakeMoveProbe

SpecBoards == InitBoards /\ [][NextBoards]_vars

---------------------------------------------------------------------------
(* Bot strategy: game.GetBestMove *)

\* Mutant: the columns right of the center come before those left of it.
MutCenterColumnsRightFirst == <<3, 4, 2, 5, 1, 6, 0>>

\* centerColumns := []int{3, 2, 4, 1, 5, 0, 6}
CenterColumns == <<3, 2, 4, 1, 5, 0, 6>>

\* Mutant: the test move is made through the caller's pointer.
MutCallerGameAliased(g, testGame) == testGame

\* "testGame := *game; testGame.Board = game.Board": the struct is copied with
\* its Board, an array, and Game.MakeMove assigns to Board and LastMove of the
\* copy.  What the caller's game g is once testGame has been written to.
CallerGame(g, testGame) == g

\* The loop "for col := 0; col < 7; col++" of findWinningMove, entered at
\* col: the move is made on a copy of the game, and CheckWinner reads the copy.
\* The column it returns, and the caller's game as the loop leaves it.
RECURSIVE findWinningMoveFrom(_, _, _, _)
findWinningMoveFrom(g, color, col, t) ==
  IF col >= Cols THEN [move |-> -1, game |-> g]
  ELSE IF ~IsValidMove(g, col) THEN findWinningMoveFrom(g, color, col + 1, t)
  ELSE CHOOSE found \in
         { IF testGame.move = None
             THEN findWinningMoveFrom(CallerGame(g, testGame.game), color,
                                      col + 1, t)
           ELSE IF CheckWinner(testGame.game) = Some(color)
             THEN [move |-> col, game |-> CallerGame(g, testGame.game)]
           ELSE findWinningMoveFrom(CallerGame(g, testGame.game), color,
                                    col + 1, t) :
           testGame \in {GameMakeMove(g, col, color, t)} } : TRUE

findWinningMove(g, color, t) == findWinningMoveFrom(g, color, 0, t).move

\* Mutant: the opponent is taken to play the bot's color.
MutOpponentColorSame(botColor) == botColor

OpponentColor(botColor) ==
  IF botColor = PlayerRed THEN PlayerYellow ELSE PlayerRed

\* Mutant: the loop looks at the center column only.
MutFirstCenterColumnOnlyCenter(g, i) ==
  IF IsValidMove(g, CenterColumns[1]) THEN CenterColumns[1] ELSE -1

\* The loop "for _, col := range centerColumns", entered at index i.
RECURSIVE FirstCenterColumn(_, _)
FirstCenterColumn(g, i) ==
  IF i > Len(CenterColumns) THEN -1
  ELSE IF IsValidMove(g, CenterColumns[i]) THEN CenterColumns[i]
  ELSE FirstCenterColumn(g, i + 1)

\* validMoves of the fallback.
ValidMoves(g) == { col \in 0..(Cols - 1) : IsValidMove(g, col) }

\* Mutant: the bot's own winning column is passed over.
MutBestMoveGivenPassesWin(g, win, block) ==
  IF block # -1 THEN {block}
  ELSE IF FirstCenterColumn(g, 1) # -1 THEN {FirstCenterColumn(g, 1)}
  ELSE IF ValidMoves(g) # {} THEN ValidMoves(g)
  ELSE {-1}

\* GetBestMove, given what its two calls of findWinningMove return: the
\* columns it can return; rand.Intn picks among those of the fallback.
BestMoveGiven(g, win, block) ==
  IF win # -1 THEN {win}
  ELSE IF block # -1 THEN {block}
  ELSE IF FirstCenterColumn(g, 1) # -1 THEN {FirstCenterColumn(g, 1)}
  ELSE IF ValidMoves(g) # {} THEN ValidMoves(g)
  ELSE {-1}

\* GetBestMove from its second call of findWinningMove on, which returned
\* second.
GetBestMoveBlock(second) ==
  [columns |-> BestMoveGiven(second.game, -1, second.move),
   game |-> second.game]

\* GetBestMove from its first call of findWinningMove on, which returned
\* first.
GetBestMoveWin(first, botColor, t) ==
  IF first.move # -1
    THEN [columns |-> BestMoveGiven(first.game, first.move, -1),
          game |-> first.game]
    ELSE CHOOSE call \in
           { GetBestMoveBlock(second) :
               second \in {findWinningMoveFrom(first.game,
                                               OpponentColor(botColor), 0, t)} } :
           TRUE

\* GetBestMove: the columns it can return, and the caller's game as the call
\* leaves it.
GetBestMoveCall(g, botColor, t) ==
  CHOOSE call \in
    { GetBestMoveWin(first, botColor, t) :
        first \in {findWinningMoveFrom(g, botColor, 0, t)} } : TRUE

GetBestMove(g, botColor, t) == GetBestMoveCall(g, botColor, t).columns

\* The boards handed to GetBestMove: a run of three, none or one more run
\* of three of either color from one of a few cells, the filler under them, and
\* the first columns of the center order filled to the top.
BotAnchors == { <<3, 0>>, <<3, 4>>, <<5, 3>> }
ThreeSegments == Segments({WinLength - 1}, {PlayerRed})
BotSecondSegments ==
  {NoSegment} \cup
  { s \in Segments({WinLength - 1}, {PlayerRed, PlayerYellow}) :
      <<s.row, s.col>> \in BotAnchors }
FullColumnSets ==
  { { CenterColumns[i] : i \in 1..n } : n \in {0, 2, 6, 7} }

BotBoardOf(s1, s2, full) ==
  LET board == BoardOf(s1, s2)
  IN  [r \in 0..(Rows - 1) |-> [c \in 0..(Cols - 1) |->
        IF board[r][c] # 0 THEN board[r][c]
        ELSE IF c \in full THEN Filler(r, c)
        ELSE 0]]

BotBoards ==
  { BotBoardOf(s1, s2, full) :
      s1 \in ThreeSegments, s2 \in BotSecondSegments, full \in FullColumnSets }

InitBot ==
  /\ games = [g \in {} |-> None]
  /\ players = [p \in {} |-> None]
  /\ mutex = "unlocked"
  /\ now = 0
  /\ nextUUID = 1
  /\ ret = NoCall
  /\ played = [g \in {} |-> << >>]
  /\ probe \in { ProbeGame(b) : b \in BotBoards }
  /\ answer = NoAnswer
  /\ sent = << >>
  /\ queue = << >>
  /\ timers = [p \in {} |-> None]
  /\ notified = << >>
  /\ drivers = {}
  /\ due = FALSE
  /\ entries = [p \in {} |-> None]
  /\ addChan = << >>
  /\ removeChan = << >>
  /\ joinRequests = << >>
  /\ leaveRequests = << >>
  /\ calls = << >>
  /\ botTimers = << >>
  /\ matches = << >>
  /\ pass = None
  /\ botAI = [g \in {} |-> "ticker"]
  /\ queueMutex = "unlocked"
  /\ conns = << >>
  /\ entriesMutex = "unlocked"
  /\ statsMutex = {}
  /\ stats = [TotalJoined |-> 0, TotalLeft |-> 0, CurrentSize |-> 0]
  /\ getStats = [c \in StatsCallers |-> [pc |-> "idle", result |-> << >>]]

\* Mutant: the other module prefers the columns left of the center.
MutBotCenterColumnsLeftFirst == <<3, 2, 1, 4, 5, 0, 6>>

\* internal/bot: centerColumns := []int{3, 2, 4, 1, 5, 0, 6}
BotCenterColumns == <<3, 2, 4, 1, 5, 0, 6>>

\* internal/bot: the loop of findWinningMove, entered at col.
RECURSIVE BotFindWinningMoveFrom(_, _, _, _)
BotFindWinningMoveFrom(g, color, col, t) ==
  IF col >= 7 THEN -1
  ELSE IF ~IsValidMove(g, col) THEN BotFindWinningMoveFrom(g, color, col + 1, t)
  ELSE LET testGame == GameMakeMove(g, col, color, t)
       IN  IF testGame.move = None
             THEN BotFindWinningMoveFrom(g, color, col + 1, t)
           ELSE IF CheckWinner(testGame.game) = Some(color) THEN col
           ELSE BotFindWinningMoveFrom(g, color, col + 1, t)

\* internal/bot: the loop "for _, col := range centerColumns", entered at i.
RECURSIVE BotFirstCenterColumn(_, _)
BotFirstCenterColumn(g, i) ==
  IF i > Len(BotCenterColumns) THEN -1
  ELSE IF IsValidMove(g, BotCenterColumns[i]) THEN BotCenterColumns[i]
  ELSE BotFirstCenterColumn(g, i + 1)

\* internal/bot: GetBestMove from the loop over centerColumns on, which ended
\* with center.
BotGetBestMoveCenter(g, center) ==
  IF center # -1 THEN {center}
  ELSE IF { col \in 0..6 : IsValidMove(g, col) } # {}
    THEN { col \in 0..6 : IsValidMove(g, col) }
  ELSE {-1}

\* internal/bot: GetBestMove from its second call of findWinningMove on.
BotGetBestMoveBlock(g, block) ==
  IF block # -1 THEN {block}
  ELSE BotGetBestMoveCenter(g, BotFirstCenterColumn(g, 1))

\* internal/bot: GetBestMove from its first call of findWinningMove on.
BotGetBestMoveWin(g, botColor, win, t) ==
  IF win # -1 THEN {win}
  ELSE BotGetBestMoveBlock(g,
         BotFindWinningMoveFrom(g, IF botColor = PlayerRed THEN PlayerYellow
                                   ELSE PlayerRed, 0, t))

\* internal/bot: GetBestMove, as the columns it can return.
BotGetBestMove(g, botColor, t) ==
  BotGetBestMoveWin(g, botColor, BotFindWinningMoveFrom(g, botColor, 0, t), t)

\* Each board is handed to GetBestMove of both modules once, for one bot
\* color: the column each returned, the columns game.GetBestMove could have
\* returned, and the game as the call left it.
GetBestMoveProbe ==
  \E botColor \in {PlayerRed, PlayerYellow} :
    \E r \in {GetBestMoveCall(probe, botColor, now)} :
      \E column \in r.columns :
        \E botColumn \in BotGetBestMove(probe, botColor, now) :
          /\ answer = NoAnswer
          /\ answer' = [fn |-> "GetBestMove", color |-> botColor,
                        column |-> column, columns |-> r.columns,
                        botColumn |-> botColumn, before |-> probe]
          /\ probe' = r.game
          /\ UNCHANGED registryVars

NextBot == GetBestMoveProbe

SpecBot == InitBot /\ [][NextBot]_vars

---------------------------------------------------------------------------
(* Matchmaker: the queue, the bot timers and the matching pass *)

\* time.AfterFunc(10*time.Second, ...) of JoinQueue, in seconds.
BotTimeout == 10
\* time.NewTicker(1 * time.Second) of Start, in seconds.
MatchInterval == 1

\* At most this many players join the queue.
MaxJoins == 3
\* The matchmaker's clock stops advancing here.
MaxMatchTime == 11

\* game.NewBot
NewBot(id, t) ==
  [ID |-> id, Color |-> 0, Number |-> 0, IsBot |-> TRUE, Connected |-> TRUE,
   LastSeen |-> t]

QueueEntry(player, t) == [Player |-> player, JoinedAt |-> t]

\* The loop "for i, entry := range m.queue" of LeaveQueue and matchWithBot,
\* entered at index i: the index of the player's first entry, 0 for none.
RECURSIVE FindEntry(_, _, _)
FindEntry(q, playerID, i) ==
  IF i > Len(q) THEN 0
  ELSE IF q[i].Player.ID = playerID THEN i
  ELSE FindEntry(q, playerID, i + 1)

\* append(m.queue[:i], m.queue[i+1:]...)
RemoveAt(q, i) == SubSeq(q, 1, i - 1) \o SubSeq(q, i + 1, Len(q))

\* Mutant: stopping a timer has no effect.
MutStopTimerNoEffect(ts, playerID) == ts

\* BotTimer.Stop(): a timer that has not fired will not fire; one whose
\* callback has started is not called back.
StopTimer(ts, playerID) ==
  IF ts[playerID].state = "armed"
    THEN [ts EXCEPT ![playerID].state = "stopped"]
    ELSE ts

\* The players map after Manager.AddPlayerConnection.
Bind(ps, playerID, gameID, t) ==
  [p \in DOMAIN ps \cup {playerID} |->
     IF p = playerID
       THEN [PlayerID |-> playerID, GameID |-> gameID, LastSeen |-> t]
       ELSE ps[p]]

\* notifyGameFound: the message written to the entry's connection.
GameFound(playerID, gameID) ==
  [Type |-> "game_found", PlayerID |-> playerID, GameID |-> gameID]

\* What the matchmaker reads and writes, as one record.
MatchState ==
  [games |-> games, players |-> players, played |-> played,
   nextUUID |-> nextUUID, queue |-> queue, timers |-> timers,
   notified |-> notified, drivers |-> drivers]

\* Mutant: the pass does not stop the timers of the entries it pairs.
MutPairFirstTwoKeepsTimers(m, t) ==
  LET e1 == m.queue[1]
      e2 == m.queue[2]
      id == m.nextUUID
      created == CreateGame(id, e1.Player, e2.Player, t)
      game == MarkPlayer(MarkPlayer(created, e1.Player.ID, TRUE, t),
                         e2.Player.ID, TRUE, t)
  IN  [m EXCEPT
         !.games = @ @@ (id :> game),
         !.played = @ @@ (id :> << >>),
         !.nextUUID = id + 1,
         !.players = Bind(Bind(@, e1.Player.ID, id, t), e2.Player.ID, id, t),
         !.notified = @ \o << GameFound(e1.Player.ID, id),
                              GameFound(e2.Player.ID, id) >>,
         !.queue = SubSeq(@, 3, Len(@))]

\* Mutant: the pass pairs the last entry of the queue with the first.
MutPairFirstTwoTakesLast(m, t) ==
  LET e1 == m.queue[1]
      e2 == m.queue[Len(m.queue)]
      id == m.nextUUID
      created == CreateGame(id, e1.Player, e2.Player, t)
      game == MarkPlayer(MarkPlayer(created, e1.Player.ID, TRUE, t),
                         e2.Player.ID, TRUE, t)
  IN  [m EXCEPT
         !.timers = StopTimer(StopTimer(@, e1.Player.ID), e2.Player.ID),
         !.games = @ @@ (id :> game),
         !.played = @ @@ (id :> << >>),
         !.nextUUID = id + 1,
         !.players = Bind(Bind(@, e1.Player.ID, id, t), e2.Player.ID, id, t),
         !.notified = @ \o << GameFound(e1.Player.ID, id),
                              GameFound(e2.Player.ID, id) >>,
         !.queue = SubSeq(@, 2, Len(@) - 1)]

\* One turn of the loop of processQueue: the first two entries are paired.
PairFirstTwo(m, t) ==
  LET e1 == m.queue[1]
      e2 == m.queue[2]
      id == m.nextUUID
      created == CreateGame(id, e1.Player, e2.Player, t)
      game == MarkPlayer(MarkPlayer(created, e1.Player.ID, TRUE, t),
                         e2.Player.ID, TRUE, t)
  IN  [m EXCEPT
         !.timers = StopTimer(StopTimer(@, e1.Player.ID), e2.Player.ID),
         !.games = @ @@ (id :> game),
         !.played = @ @@ (id :> << >>),
         !.nextUUID = id + 1,
         !.players = Bind(Bind(@, e1.Player.ID, id, t), e2.Player.ID, id, t),
         !.notified = @ \o << GameFound(e1.Player.ID, id),
                              GameFound(e2.Player.ID, id) >>,
         !.queue = SubSeq(@, 3, Len(@))]

\* processQueue: "for len(m.queue) >= 2".
RECURSIVE PairLoop(_, _)
PairLoop(m, t) ==
  IF Len(m.queue) >= 2 THEN PairLoop(PairFirstTwo(m, t), t) ELSE m

\* Mutant: the entry stays in the queue when its player is given a bot.
MutBotMatchKeepsEntry(m, playerID, t) ==
  LET i == FindEntry(m.queue, playerID, 1)
  IN  IF i = 0 THEN m
      ELSE LET entry == m.queue[i]
               botID == m.nextUUID
               id == m.nextUUID + 1
               created == CreateGame(id, entry.Player, NewBot(botID, t), t)
           IN  [m EXCEPT
                  !.games = @ @@ (id :> MarkPlayer(created, playerID, TRUE, t)),
                  !.played = @ @@ (id :> << >>),
                  !.nextUUID = id + 1,
                  !.players = Bind(@, playerID, id, t),
                  !.notified = Append(@, GameFound(playerID, id)),
                  !.drivers = @ \cup {[GameID |-> id, BotID |-> botID]}]

\* matchWithBot for the entry of this player.
BotMatch(m, playerID, t) ==
  LET i == FindEntry(m.queue, playerID, 1)
  IN  IF i = 0 THEN m
      ELSE LET entry == m.queue[i]
               botID == m.nextUUID
               id == m.nextUUID + 1
               created == CreateGame(id, entry.Player, NewBot(botID, t), t)
           IN  [m EXCEPT
                  !.queue = RemoveAt(@, i),
                  !.games = @ @@ (id :> MarkPlayer(created, playerID, TRUE, t)),
                  !.played = @ @@ (id :> << >>),
                  !.nextUUID = id + 1,
                  !.players = Bind(@, playerID, id, t),
                  !.notified = Append(@, GameFound(playerID, id)),
                  !.drivers = @ \cup {[GameID |-> id, BotID |-> botID]}]

\* The matchmaker's state becomes m.
Becomes(m) ==
  /\ games' = m.games
  /\ players' = m.players
  /\ played' = m.played
  /\ nextUUID' = m.nextUUID
  /\ queue' = m.queue
  /\ timers' = m.timers
  /\ notified' = m.notified
  /\ drivers' = m.drivers

\* Matchmaker.JoinQueue
JoinQueue ==
  /\ Cardinality(DOMAIN timers) < MaxJoins
  /\ queue' = Append(queue, QueueEntry(NewPlayer(nextUUID, now), now))
  /\ timers' = timers @@ (nextUUID :> [state |-> "armed", at |-> now])
  /\ nextUUID' = nextUUID + 1
  /\ UNCHANGED <<games, players, mutex, now, ret, played, engineVars, serviceVars, statsVars, handlerVars, driverVars, lockVars, sent,
                 notified, drivers, due>>

\* Matchmaker.LeaveQueue
LeaveQueue(playerID) ==
  /\ LET i == FindEntry(queue, playerID, 1)
     IN  IF i = 0
           THEN UNCHANGED <<queue, timers>>
           ELSE /\ timers' = StopTimer(timers, playerID)
                /\ queue' = RemoveAt(queue, i)
  /\ UNCHANGED <<games, players, mutex, now, nextUUID, ret, played,
                 engineVars, serviceVars, statsVars, handlerVars, driverVars, lockVars, sent, notified, drivers, due>>

\* Mutant: a timer fires without waiting for its time.
MutBotTimerFiresAtOnce(playerID) ==
  /\ timers[playerID].state = "armed"
  /\ timers' = [timers EXCEPT ![playerID].state = "fired"]
  /\ UNCHANGED <<games, players, mutex, now, nextUUID, ret, played,
                 engineVars, serviceVars, statsVars, handlerVars, driverVars, lockVars, sent, queue, notified, drivers, due>>

\* The runtime starts the callback of a timer whose time has come.
BotTimerFires(playerID) ==
  /\ timers[playerID].state = "armed"
  /\ now - timers[playerID].at >= BotTimeout
  /\ timers' = [timers EXCEPT ![playerID].state = "fired"]
  /\ UNCHANGED <<games, players, mutex, now, nextUUID, ret, played,
                 engineVars, serviceVars, statsVars, handlerVars, driverVars, lockVars, sent, queue, notified, drivers, due>>

\* The callback: Matchmaker.matchWithBot(entry).
matchWithBot(playerID) ==
  /\ timers[playerID].state = "fired"
  /\ mutex = "unlocked"
  /\ Becomes(BotMatch([MatchState EXCEPT !.timers[playerID].state = "done"],
                      playerID, now))
  /\ UNCHANGED <<mutex, now, ret, engineVars, serviceVars, statsVars, handlerVars, driverVars, lockVars, sent, due>>

\* Matchmaker.processQueue, called by Start on every tick of its ticker.
processQueue ==
  /\ due
  /\ mutex = "unlocked"
  /\ Becomes(PairLoop(MatchState, now))
  /\ due' = FALSE
  /\ UNCHANGED <<mutex, now, ret, engineVars, serviceVars, statsVars, handlerVars, driverVars, lockVars, sent>>

\* A second passes: the ticker ticks.  The pass of the last tick has run, and
\* the timers whose time had come have fired.
MatchTick ==
  /\ ~due
  /\ now + MatchInterval <= MaxMatchTime
  /\ \A p \in DOMAIN timers :
       timers[p].state = "armed" => now - timers[p].at < BotTimeout
  /\ now' = now + MatchInterval
  /\ due' = TRUE
  /\ UNCHANGED <<games, players, mutex, nextUUID, ret, played, engineVars, serviceVars, statsVars, handlerVars, driverVars, lockVars,
                 sent, queue, timers, notified, drivers>>

LeaveCall == \E playerID \in DOMAIN timers \cup {nextUUID} : LeaveQueue(playerID)
TimerCall == \E playerID \in DOMAIN timers : BotTimerFires(playerID)
CallbackCall == \E playerID \in DOMAIN timers : matchWithBot(playerID)

NextMatch ==
  \/ JoinQueue
  \/ LeaveCall
  \/ TimerCall
  \/ CallbackCall
  \/ processQueue
  \/ MatchTick

SpecMatch == Init /\ [][NextMatch]_vars

\* The same, with the scheduling the runtime gives: the ticker keeps ticking
\* and its pass runs, a timer whose time has come fires, and its callback gets
\* the mutex.
SpecMatchFair ==
  /\ Init /\ [][NextMatch]_vars
  /\ WF_vars(MatchTick)
  /\ WF_vars(processQueue)
  /\ WF_vars(TimerCall)
  /\ WF_vars(CallbackCall)

---------------------------------------------------------------------------
(* MatchmakingService: its callers, the request worker, the queue worker,
   the bot timers and the matching pass *)

\* MatchmakingConfig.EnableBotMatches, and Preferences.AllowBots as
\* Manager.JoinQueue and Queue.Add default it.
EnableBotMatches == TRUE
AllowBots == TRUE
\* Preferences.SkillLevel as Manager.JoinQueue and Queue.Add default it.
DefaultSkillLevel == 5
\* areCompatible: "Allow skill difference of up to 2 levels".
MaxSkillDifference == 2

\* MatchmakingConfig.MaxQueueSize as configured here.
MaxQueueSize == 1
\* The callers pass this many different player ids.
MaxPlayers == 2
\* At most this many calls of JoinQueue and LeaveQueue are made.
MaxCalls == 2
\* At most this many matches are created.
MaxMatches == 2
\* make(chan *JoinRequest, 100), make(chan *LeaveRequest, 100): the requests
\* each channel holds, scaled to the number of calls.
RequestCapacity == 1

\* The player ids the callers pass; uuid.New() hands out none of them.
ServicePlayers == 101..(100 + MaxPlayers)

ErrQueueFull == "matchmaking queue is full"
ErrRequestTimeout == "request timeout"

\* What the service keeps apart from.
outsideService ==
  <<games, players, mutex, now, ret, played, probe, answer, sent, matchVars,
    driverVars, lockVars, handlerVars, statsVars>>

\* The QueueEntry of Queue.Add; BotTimer is the index of its timer in
\* botTimers, 0 for nil.
ServiceQueueEntry(playerID, t) ==
  [PlayerID |-> playerID, JoinedAt |-> t, SkillLevel |-> DefaultSkillLevel,
   AllowBots |-> AllowBots, BotTimer |-> 0]

GetSize(es) == Cardinality(DOMAIN es)

GetEntry(es, playerID) ==
  IF playerID \in DOMAIN es THEN Some(es[playerID]) ELSE None

abs(x) == IF x < 0 THEN 0 - x ELSE x

areCompatible(player1, player2) ==
  ~(abs(player1.SkillLevel - player2.SkillLevel) > MaxSkillDifference)

\* The candidates GetCompatibleMatch can return: it ranges over the map, in
\* an order the runtime picks, and returns the first compatible other entry.
GetCompatibleMatch(es, entry) ==
  { c \in DOMAIN es : c # entry.PlayerID /\ areCompatible(entry, es[c]) }

\* GetAllEntries: the entries, in an order the runtime picks.
GetAllEntries(es) ==
  { s \in [1..Cardinality(DOMAIN es) -> DOMAIN es] :
      \A i, j \in DOMAIN s : s[i] = s[j] => i = j }

\* DefaultGameCreator.CreateGame
CreateMatch(gameID, player1, player2, t) ==
  [GameID |-> gameID, Player1 |-> player1, Player2 |-> player2,
   CreatedAt |-> t, IsBot |-> player2.IsBot]

ServicePlayer(id, isBot) == [ID |-> id, IsBot |-> isBot]

\* A call's ResponseCh before the request worker wrote to it.
NoReply == [Success |-> FALSE, Message |-> ""]

\* request.ResponseCh <- response
Respond(cs, c, success, message) ==
  [cs EXCEPT ![c].reply = [Success |-> success, Message |-> message]]

\* JoinQueue up to the request it builds: the service runs, and the size of
\* the queue is read and compared.
ServiceJoinQueue(playerID) ==
  /\ Len(calls) < MaxCalls
  /\ calls' = Append(calls,
       IF GetSize(entries) >= MaxQueueSize
       THEN [op |-> "join", PlayerID |-> playerID, pc |-> "returned",
             err |-> ErrQueueFull, reply |-> NoReply]
       ELSE [op |-> "join", PlayerID |-> playerID, pc |-> "checked",
             err |-> ErrNone, reply |-> NoReply])
  /\ UNCHANGED <<entries, addChan, removeChan, joinRequests, leaveRequests,
                 botTimers, matches, pass, nextUUID, outsideService>>

\* s.joinRequests <- request: the send waits while the channel is full.
JoinSend(c) ==
  /\ calls[c].op = "join"
  /\ calls[c].pc = "checked"
  /\ Len(joinRequests) < RequestCapacity
  /\ joinRequests' =
       Append(joinRequests, [PlayerID |-> calls[c].PlayerID, call |-> c])
  /\ calls' = [calls EXCEPT ![c].pc = "sent"]
  /\ UNCHANGED <<entries, addChan, removeChan, leaveRequests, botTimers,
                 matches, pass, nextUUID, outsideService>>

\* LeaveQueue up to the request it builds: the service runs.
ServiceLeaveQueue(playerID) ==
  /\ Len(calls) < MaxCalls
  /\ calls' = Append(calls,
       [op |-> "leave", PlayerID |-> playerID, pc |-> "checked",
        err |-> ErrNone, reply |-> NoReply])
  /\ UNCHANGED <<entries, addChan, removeChan, joinRequests, leaveRequests,
                 botTimers, matches, pass, nextUUID, outsideService>>

\* s.leaveRequests <- request: the send waits while the channel is full.
LeaveSend(c) ==
  /\ calls[c].op = "leave"
  /\ calls[c].pc = "checked"
  /\ Len(leaveRequests) < RequestCapacity
  /\ leaveRequests' =
       Append(leaveRequests, [PlayerID |-> calls[c].PlayerID, call |-> c])
  /\ calls' = [calls EXCEPT ![c].pc = "sent"]
  /\ UNCHANGED <<entries, addChan, removeChan, joinRequests, botTimers,
                 matches, pass, nextUUID, outsideService>>

\* case response := <-request.ResponseCh: return response, nil
Receive(c) ==
  /\ calls[c].pc = "sent"
  /\ calls[c].reply # NoReply
  /\ calls' = [calls EXCEPT ![c].pc = "returned"]
  /\ UNCHANGED <<entries, addChan, removeChan, joinRequests, leaveRequests,
                 botTimers, matches, pass, nextUUID, outsideService>>

\* case <-time.After(5 * time.Second): the request stays where it is.
RequestTimeout(c) ==
  /\ calls[c].pc = "sent"
  /\ calls' = [calls EXCEPT ![c].pc = "returned", ![c].err = ErrRequestTimeout]
  /\ UNCHANGED <<entries, addChan, removeChan, joinRequests, leaveRequests,
                 botTimers, matches, pass, nextUUID, outsideService>>

\* requestProcessor's case request := <-s.joinRequests
handleJoinRequest ==
  /\ joinRequests # << >>
  /\ LET request == Head(joinRequests)
         armed == EnableBotMatches /\ AllowBots
         entry == [ServiceQueueEntry(request.PlayerID, now) EXCEPT
                     !.BotTimer = IF armed THEN Len(botTimers) + 1 ELSE 0]
     IN IF GetEntry(entries, request.PlayerID) # None
        THEN /\ calls' = Respond(calls, request.call,
                                 FALSE, "Player already in queue")
             /\ UNCHANGED <<addChan, botTimers>>
        ELSE /\ addChan' = Append(addChan, entry)
             /\ botTimers' =
                  IF armed
                  THEN Append(botTimers,
                         [PlayerID |-> request.PlayerID, state |-> "armed"])
                  ELSE botTimers
             /\ calls' = Respond(calls, request.call,
                                 TRUE, "Successfully joined queue")
  /\ joinRequests' = Tail(joinRequests)
  /\ UNCHANGED <<entries, removeChan, leaveRequests, matches, pass, nextUUID,
                 outsideService>>

\* requestProcessor's case request := <-s.leaveRequests
handleLeaveRequest ==
  /\ leaveRequests # << >>
  /\ LET request == Head(leaveRequests)
     IN IF GetEntry(entries, request.PlayerID) = None
        THEN /\ calls' = Respond(calls, request.call,
                                 FALSE, "Player not in queue")
             /\ UNCHANGED removeChan
        ELSE /\ removeChan' = Append(removeChan, request.PlayerID)
             /\ calls' = Respond(calls, request.call,
                                 TRUE, "Successfully left queue")
  /\ leaveRequests' = Tail(leaveRequests)
  /\ UNCHANGED <<entries, addChan, joinRequests, botTimers, matches, pass,
                 nextUUID, outsideService>>

\* queueProcessor's case entry := <-s.queue.addChan
processAdd ==
  /\ addChan # << >>
  /\ LET entry == Head(addChan)
     IN entries' = [p \in DOMAIN entries \cup {entry.PlayerID} |->
                      IF p = entry.PlayerID THEN entry ELSE entries[p]]
  /\ addChan' = Tail(addChan)
  /\ UNCHANGED <<removeChan, joinRequests, leaveRequests, calls, botTimers,
                 matches, pass, nextUUID, outsideService>>

\* entry.BotTimer.Stop()
StopBotTimer(ts, i) ==
  IF i # 0 /\ ts[i].state = "armed" THEN [ts EXCEPT ![i].state = "stopped"]
  ELSE ts

\* queueProcessor's case playerID := <-s.queue.removeChan
processRemove ==
  /\ removeChan # << >>
  /\ LET playerID == Head(removeChan)
     IN IF playerID \in DOMAIN entries
        THEN /\ botTimers' = StopBotTimer(botTimers, entries[playerID].BotTimer)
             /\ entries' = [p \in DOMAIN entries \ {playerID} |-> entries[p]]
        ELSE UNCHANGED <<entries, botTimers>>
  /\ removeChan' = Tail(removeChan)
  /\ UNCHANGED <<addChan, joinRequests, leaveRequests, calls, matches, pass,
                 nextUUID, outsideService>>

\* The timer of time.AfterFunc(timeout, ...) expires and starts its callback.
ServiceTimerFires(i) ==
  /\ botTimers[i].state = "armed"
  /\ botTimers' = [botTimers EXCEPT ![i].state = "fired"]
  /\ UNCHANGED <<entries, addChan, removeChan, joinRequests, leaveRequests,
                 calls, matches, pass, nextUUID, outsideService>>

\* The callback: createBotMatch(entry), for the entry the timer was armed on.
createBotMatch(i) ==
  /\ botTimers[i].state = "fired"
  /\ botTimers' = [botTimers EXCEPT ![i].state = "done"]
  /\ LET playerID == botTimers[i].PlayerID
     IN IF GetEntry(entries, playerID) = None
        THEN UNCHANGED <<removeChan, matches, nextUUID>>
        ELSE /\ Len(matches) < MaxMatches
             /\ removeChan' = Append(removeChan, playerID)
             /\ matches' = Append(matches,
                  [CreateMatch(nextUUID + 1, ServicePlayer(playerID, FALSE),
                               ServicePlayer(nextUUID, TRUE), now)
                     EXCEPT !.IsBot = TRUE])
             /\ nextUUID' = nextUUID + 2
  /\ UNCHANGED <<entries, addChan, joinRequests, leaveRequests, calls, pass,
                 outsideService>>

\* createPlayerMatch, as what it sends and what it creates.
createPlayerMatch(entry1, entry2) ==
  /\ Len(matches) < MaxMatches
  /\ removeChan' = removeChan \o <<entry1.PlayerID, entry2.PlayerID>>
  /\ matches' = Append(matches,
       CreateMatch(nextUUID, ServicePlayer(entry1.PlayerID, FALSE),
                   ServicePlayer(entry2.PlayerID, FALSE), now))
  /\ nextUUID' = nextUUID + 1

\* processMatches begins: entries := s.queue.GetAllEntries()
processMatchesStart ==
  /\ pass = None
  /\ entries # [p \in {} |-> None]
  /\ \E order \in GetAllEntries(entries) :
       pass' = Some([entries |-> [i \in DOMAIN order |-> entries[order[i]]],
                     i |-> 1])
  /\ UNCHANGED <<entries, addChan, removeChan, joinRequests, leaveRequests,
                 calls, botTimers, matches, nextUUID, outsideService>>

\* One round of the loop of processMatches, and its end after the last.
processMatchesStep ==
  /\ pass # None
  /\ LET p == pass[1]
         entry1 == p.entries[p.i]
     IN /\ pass' = IF p.i = Len(p.entries) THEN None
                   ELSE Some([p EXCEPT !.i = @ + 1])
        /\ IF GetEntry(entries, entry1.PlayerID) = None
           THEN UNCHANGED <<removeChan, matches, nextUUID>>
           ELSE IF GetCompatibleMatch(entries, entry1) = {}
           THEN UNCHANGED <<removeChan, matches, nextUUID>>
           ELSE \E c \in GetCompatibleMatch(entries, entry1) :
                  createPlayerMatch(entry1, entries[c])
  /\ UNCHANGED <<entries, addChan, joinRequests, leaveRequests, calls,
                 botTimers, outsideService>>

JoinCall == \E playerID \in ServicePlayers : ServiceJoinQueue(playerID)
SendCall == \E c \in DOMAIN calls : JoinSend(c) \/ LeaveSend(c)
LeaveServiceCall == \E playerID \in ServicePlayers : ServiceLeaveQueue(playerID)
ReceiveCall == \E c \in DOMAIN calls : Receive(c)
TimeoutCall == \E c \in DOMAIN calls : RequestTimeout(c)
ServiceTimerCall == \E i \in DOMAIN botTimers : ServiceTimerFires(i)
ServiceCallbackCall == \E i \in DOMAIN botTimers : createBotMatch(i)

requestProcessor == handleJoinRequest \/ handleLeaveRequest
queueProcessor == processAdd \/ processRemove
matchProcessor == processMatchesStart \/ processMatchesStep

NextService ==
  \/ JoinCall
  \/ SendCall
  \/ LeaveServiceCall
  \/ ReceiveCall
  \/ TimeoutCall
  \/ requestProcessor
  \/ queueProcessor
  \/ matchProcessor
  \/ ServiceTimerCall
  \/ ServiceCallbackCall

SpecService == Init /\ [][NextService]_vars

\* The same, with the scheduling a caller can count on: its own goroutine
\* runs, so a send that can proceed proceeds, a response that is there is
\* received, and the timer of time.After expires. Nothing is assumed of the
\* workers, which may be saturated.
SpecServiceFair ==
  /\ Init /\ [][NextService]_vars
  /\ WF_vars(SendCall)
  /\ WF_vars(ReceiveCall)
  /\ WF_vars(TimeoutCall)

---------------------------------------------------------------------------
(* Bot driver: Matchmaker.runBotAI, one goroutine per bot game *)

\* The clock of the bot games stops advancing here.
MaxDriverTime == 42

\* The columns the human player of a bot game sends, move after move: the
\* first line wins by a double threat on the bottom row, the second leaves
\* column 3 to the bot, the third has three of column 0 blocked.
HumanLines == { <<3, 4, 2, 5>>, <<0, 1, 0, 1>>, <<0, 0, 0, 1>> }

\* Where the goroutine of the driver of game g stands: at "for range
\* ticker.C" from its start.
DriverAt(g) == IF g \in DOMAIN botAI THEN botAI[g] ELSE "ticker"

DriverGoes(g, pc) ==
  botAI' = [x \in DOMAIN botAI \cup {g} |-> IF x = g THEN pc ELSE botAI[x]]

\* "for _, player := range gameInstance.Players { if player.ID == botID":
\* the index of the bot among the players, 0 when it is none of them.
BotIndex(g, botID) == FindPlayer(g, botID, 1)

\* The move_result message runBotAI hands to BroadcastToGame.
MoveResultMessage(gameID) ==
  [Type |-> "move_result", GameID |-> gameID, Winner |-> None,
   Reason |-> "", Duration |-> 0, IsDraw |-> FALSE]

\* The game_end message runBotAI hands to BroadcastToGame: Winner is nil.
DriverGameEndMessage(gameID) ==
  [Type |-> "game_end", GameID |-> gameID, Winner |-> None,
   Reason |-> "Game completed", Duration |-> 0, IsDraw |-> FALSE]

\* A tick of the driver's ticker: GetGame under the read lock, then the checks
\* on the game it returned.
DriverTick(d) ==
  /\ DriverAt(d.GameID) = "ticker"
  /\ mutex = "unlocked"
  /\ IF d.GameID \notin DOMAIN games
       THEN DriverGoes(d.GameID, "done")
     ELSE IF games[d.GameID].State # GameStatePlaying
       THEN DriverGoes(d.GameID, "done")
     ELSE LET i == BotIndex(games[d.GameID], d.BotID)
          IN  IF i = 0 \/ games[d.GameID].CurrentTurn
                            # games[d.GameID].Players[i].Color
                THEN DriverGoes(d.GameID, "ticker")
                ELSE DriverGoes(d.GameID, "sleeping")
  /\ UNCHANGED <<games, players, mutex, now, nextUUID, ret, played,
                 engineVars, serviceVars, statsVars, handlerVars, lockVars, otherVars>>

\* After time.Sleep: GetBestMove on the game, then Manager.MakeMove with the
\* column it gave.
DriverMove(d) ==
  /\ DriverAt(d.GameID) = "sleeping"
  /\ LET game == games[d.GameID]
         botColor == game.Players[BotIndex(game, d.BotID)].Color
     IN  \E column \in GetBestMove(game, botColor, now) :
           IF column = -1
             THEN /\ DriverGoes(d.GameID, "ticker")
                  /\ UNCHANGED <<games, ret, played>>
             ELSE /\ mutex = "unlocked"
                  /\ \E r \in {ManagerMakeMove(games, d.GameID, d.BotID,
                                               column, now)} :
                       /\ games' = r.games
                       /\ ret' = [NoCall EXCEPT
                                    !.op = "MakeMove", !.gameID = d.GameID,
                                    !.playerID = d.BotID, !.column = column,
                                    !.err = r.err, !.move = r.move]
                       /\ played' = IF r.err = ErrNone
                                      THEN [played EXCEPT
                                              ![d.GameID] = Append(@, column)]
                                      ELSE played
                       /\ DriverGoes(d.GameID, IF r.err = ErrNone
                                                 THEN "move_result"
                                                 ELSE "ticker")
  /\ UNCHANGED <<players, mutex, now, nextUUID, engineVars, serviceVars, statsVars, handlerVars, lockVars,
                 otherVars>>

\* The message the driver hands to BroadcastToGame where it stands.
DriverMessage(d) ==
  IF DriverAt(d.GameID) \in {"move_result", "move_result_write"}
    THEN MoveResultMessage(d.GameID)
    ELSE DriverGameEndMessage(d.GameID)

\* "if conn, exists := m.players[player.ID]; exists": the players of the game
\* that have a connection BroadcastToGame writes to.
Receivers(gameID) ==
  { i \in 1..Len(games[gameID].Players) :
      games[gameID].Players[i].ID \in DOMAIN players }

\* BroadcastToGame begins: m.mutex.RLock(), the game is looked up.
DriverBroadcast(d) ==
  /\ DriverAt(d.GameID) \in {"move_result", "game_end"}
  /\ mutex = "unlocked"
  /\ mutex' = "broadcast"
  /\ DriverGoes(d.GameID, IF DriverAt(d.GameID) = "move_result"
                            THEN "move_result_write"
                            ELSE "game_end_write")
  /\ UNCHANGED <<games, players, now, nextUUID, ret, played, engineVars,
                 serviceVars, statsVars, handlerVars, lockVars, otherVars>>

\* BroadcastToGame ends: conn.Conn.WriteJSON(message) has returned for every
\* connection of the game, and the deferred RUnlock runs.  After the game_end
\* the driver returns.
DriverWrite(d) ==
  /\ DriverAt(d.GameID) \in {"move_result_write", "game_end_write"}
  /\ mutex = "broadcast"
  /\ sent' = IF Receivers(d.GameID) # {}
               THEN Append(sent, DriverMessage(d))
               ELSE sent
  /\ mutex' = "unlocked"
  /\ DriverGoes(d.GameID, IF DriverAt(d.GameID) = "move_result_write"
                            THEN "ended"
                            ELSE "done")
  /\ UNCHANGED <<games, players, now, nextUUID, ret, played, engineVars,
                 serviceVars, statsVars, handlerVars, lockVars, matchVars>>

\* "if gameInstance.State == models.GameStateFinished": the game_end is to be
\* broadcast, or the loop takes its next turn.
DriverGameEnd(d) ==
  /\ DriverAt(d.GameID) = "ended"
  /\ DriverGoes(d.GameID, IF games[d.GameID].State = GameStateFinished
                            THEN "game_end"
                            ELSE "ticker")
  /\ UNCHANGED <<games, players, mutex, now, nextUUID, ret, played,
                 engineVars, serviceVars, statsVars, handlerVars, lockVars, otherVars>>

\* The human player of a bot game: the first of its players.
Human(g) == games[g].Players[1]

\* The columns the human has sent in the moves applied to game g.
HumanHistory(g) ==
  [k \in 1..((Len(played[g]) + 1) \div 2) |-> played[g][2 * k - 1]]

\* The human player sends its next column, on its turn.
HumanMoveCall ==
  \E d \in drivers :
    /\ games[d.GameID].State = GameStatePlaying
    /\ games[d.GameID].CurrentTurn = Human(d.GameID).Color
    /\ \E line \in HumanLines :
         LET h == HumanHistory(d.GameID)
         IN  /\ Len(h) < Len(line)
             /\ SubSeq(line, 1, Len(h)) = h
             /\ MakeMove(d.GameID, Human(d.GameID).ID, line[Len(h) + 1])

\* The connection of the human player is closed.
HumanDisconnectCall ==
  \E d \in drivers :
    /\ Human(d.GameID).ID \in DOMAIN players
    /\ RemovePlayerConnection(Human(d.GameID).ID)

\* One player joins the queue and no other does.
LoneJoinCall == DOMAIN timers = {} /\ JoinQueue

\* Time passes: the bot timeout, or more than the grace period.
DriverClock ==
  \E d \in {BotTimeout, GracePeriod + 1} :
    /\ now + d <= MaxDriverTime
    /\ now' = now + d
    /\ UNCHANGED <<games, players, mutex, nextUUID, ret, played, engineVars,
                   serviceVars, statsVars, handlerVars, driverVars, lockVars, otherVars>>

DriverTickStep == \E d \in drivers : DriverTick(d)
DriverMoveStep == \E d \in drivers : DriverMove(d)
DriverBroadcastStep == \E d \in drivers : DriverBroadcast(d)
DriverWriteStep == \E d \in drivers : DriverWrite(d)
DriverGameEndStep == \E d \in drivers : DriverGameEnd(d)

NextDriver ==
  \/ LoneJoinCall
  \/ TimerCall
  \/ CallbackCall
  \/ HumanMoveCall
  \/ HumanDisconnectCall
  \/ cleanupDisconnectedPlayers
  \/ DriverClock
  \/ DriverTickStep
  \/ DriverMoveStep
  \/ DriverBroadcastStep
  \/ DriverWriteStep
  \/ DriverGameEndStep

SpecDriver == Init /\ [][NextDriver]_vars

\* The same, with the scheduling the runtime gives the goroutine of runBotAI:
\* its ticker keeps ticking, its sleep ends, a call that can go on does, and
\* the peers take what is written to them.
SpecDriverFair ==
  /\ Init /\ [][NextDriver]_vars
  /\ WF_vars(DriverTickStep)
  /\ WF_vars(DriverMoveStep)
  /\ WF_vars(DriverBroadcastStep)
  /\ WF_vars(DriverWriteStep)
  /\ WF_vars(DriverGameEndStep)

\* Two players join the queue at the start, and no other does.
TwoJoinCall == now = 0 /\ Cardinality(DOMAIN timers) < 2 /\ JoinQueue

\* Time passes: the bot timeout after the joins, then more than the grace
\* period.
SessionsClock ==
  \E d \in {BotTimeout, GracePeriod + 1} :
    /\ now = 0 <=> d = BotTimeout
    /\ Cardinality(DOMAIN timers) = 2
    /\ now + d <= MaxDriverTime
    /\ now' = now + d
    /\ UNCHANGED <<games, players, mutex, nextUUID, ret, played, engineVars,
                   serviceVars, statsVars, handlerVars, driverVars, lockVars,
                   otherVars>>

\* The human player of a bot game sends its first column, the center.
HumanOpeningCall ==
  \E d \in drivers :
    /\ games[d.GameID].State = GameStatePlaying
    /\ played[d.GameID] = << >>
    /\ MakeMove(d.GameID, Human(d.GameID).ID, 3)

\* Two bot games side by side, each with its driver, under the one registry.
NextSessions ==
  \/ TwoJoinCall
  \/ TimerCall
  \/ CallbackCall
  \/ HumanOpeningCall
  \/ HumanDisconnectCall
  \/ cleanupDisconnectedPlayers
  \/ SessionsClock
  \/ DriverTickStep
  \/ DriverMoveStep
  \/ DriverBroadcastStep
  \/ DriverWriteStep
  \/ DriverGameEndStep

SpecSessions == Init /\ [][NextSessions]_vars

SpecSessionsFair ==
  /\ Init /\ [][NextSessions]_vars
  /\ WF_vars(DriverTickStep)
  /\ WF_vars(DriverMoveStep)
  /\ WF_vars(DriverBroadcastStep)
  /\ WF_vars(DriverWriteStep)
  /\ WF_vars(DriverGameEndStep)

---------------------------------------------------------------------------
(* The two mutexes: Matchmaker.mutex around the queue, taken first, and
   Manager.mutex inside the calls the matchmaker makes to the registry *)

\* JoinQueue and LeaveQueue take Matchmaker.mutex for the whole call.
LockedJoinCall == queueMutex = "unlocked" /\ JoinQueue
LockedLeaveCall == queueMutex = "unlocked" /\ LeaveCall

\* processQueue: m.mutex.Lock()
PassLock ==
  /\ due
  /\ queueMutex = "unlocked"
  /\ queueMutex' = "processQueue"
  /\ UNCHANGED <<games, players, mutex, now, nextUUID, ret, played,
                 engineVars, serviceVars, statsVars, handlerVars, driverVars, otherVars>>

\* processQueue, "for len(m.queue) >= 2": m.gameManager.CreateGame is called
\* and takes Manager.mutex.
PassTakesRegistry ==
  /\ queueMutex = "processQueue"
  /\ Len(queue) >= 2
  /\ mutex = "unlocked"
  /\ mutex' = "matchmaker"
  /\ UNCHANGED <<games, players, now, nextUUID, ret, played, engineVars,
                 serviceVars, statsVars, handlerVars, driverVars, lockVars, otherVars>>

\* The rest of the turn of the loop: the game is stored, the connections are
\* added, the players are notified, the two entries leave the queue.
PassPairs ==
  /\ queueMutex = "processQueue"
  /\ mutex = "matchmaker"
  /\ Becomes(PairFirstTwo(MatchState, now))
  /\ mutex' = "unlocked"
  /\ UNCHANGED <<now, ret, engineVars, serviceVars, statsVars, handlerVars, driverVars, lockVars,
                 sent, due>>

\* processQueue returns: the deferred m.mutex.Unlock()
PassUnlock ==
  /\ queueMutex = "processQueue"
  /\ Len(queue) < 2
  /\ mutex # "matchmaker"
  /\ queueMutex' = "unlocked"
  /\ due' = FALSE
  /\ UNCHANGED <<games, players, mutex, now, nextUUID, ret, played,
                 engineVars, serviceVars, statsVars, handlerVars, driverVars, sent, queue, timers,
                 notified, drivers>>

\* matchWithBot: m.mutex.Lock() and the search of the queue; the callback
\* returns when the entry is gone.
BotLock(playerID) ==
  /\ timers[playerID].state = "fired"
  /\ queueMutex = "unlocked"
  /\ IF FindEntry(queue, playerID, 1) = 0
       THEN /\ timers' = [timers EXCEPT ![playerID].state = "done"]
            /\ UNCHANGED queueMutex
       ELSE /\ timers' = [timers EXCEPT ![playerID].state = "running"]
            /\ queueMutex' = "matchWithBot"
  /\ UNCHANGED <<games, players, mutex, now, nextUUID, ret, played,
                 engineVars, serviceVars, statsVars, handlerVars, driverVars, sent, queue, notified,
                 drivers, due>>

\* matchWithBot: m.gameManager.CreateGame is called and takes Manager.mutex.
BotTakesRegistry(playerID) ==
  /\ timers[playerID].state = "running"
  /\ queueMutex = "matchWithBot"
  /\ mutex = "unlocked"
  /\ mutex' = "matchmaker"
  /\ UNCHANGED <<games, players, now, nextUUID, ret, played, engineVars,
                 serviceVars, statsVars, handlerVars, driverVars, lockVars, otherVars>>

\* The rest of matchWithBot: the entry leaves the queue, the game is stored,
\* the connection is added, the player is notified, the driver is started, and
\* the deferred m.mutex.Unlock() runs.
BotCreates(playerID) ==
  /\ timers[playerID].state = "running"
  /\ queueMutex = "matchWithBot"
  /\ mutex = "matchmaker"
  /\ Becomes(BotMatch([MatchState EXCEPT !.timers[playerID].state = "done"],
                      playerID, now))
  /\ mutex' = "unlocked"
  /\ queueMutex' = "unlocked"
  /\ UNCHANGED <<now, ret, engineVars, serviceVars, statsVars, handlerVars, driverVars, sent, due>>

\* The ticker of Start ticks, seen after the bot timeout or after more than
\* the grace period: the pass of the tick before has returned.
LongTick ==
  /\ ~due
  /\ \E d \in {BotTimeout, GracePeriod + 1} :
       /\ now + d <= MaxDriverTime
       /\ now' = now + d
  /\ due' = TRUE
  /\ UNCHANGED <<games, players, mutex, nextUUID, ret, played, engineVars,
                 serviceVars, statsVars, handlerVars, driverVars, lockVars, sent, queue, timers,
                 notified, drivers>>

BotLockCall == \E playerID \in DOMAIN timers : BotLock(playerID)
BotTakesRegistryCall == \E playerID \in DOMAIN timers : BotTakesRegistry(playerID)
BotCreatesCall == \E playerID \in DOMAIN timers : BotCreates(playerID)

NextLocks ==
  \/ LockedJoinCall
  \/ LockedLeaveCall
  \/ TimerCall
  \/ BotLockCall
  \/ BotTakesRegistryCall
  \/ BotCreatesCall
  \/ PassLock
  \/ PassTakesRegistry
  \/ PassPairs
  \/ PassUnlock
  \/ LongTick
  \/ DisconnectCall
  \/ cleanupDisconnectedPlayers

SpecLocks == Init /\ [][NextLocks]_vars

---------------------------------------------------------------------------
(* The websocket handlers: GameHandler.HandleWebSocket, one goroutine per
   connection, and the calls it makes for join_queue, make_move and
   reconnect *)

\* The connections accepted in an exploration.
MaxConns == 3

\* The games two players follow while both stay connected: Red completes
\* column 0 with the seventh move, or Yellow completes column 1 with the eighth.
HandlerLines == { <<0, 1, 0, 1, 0, 1, 0>>, <<0, 1, 0, 1, 2, 1, 3, 1>> }

\* The opening they follow while connections come and go.
ReconnectLines == { <<3, 3>> }

Handles == 1..Len(conns)

\* conns[h]: playerID is the local variable of HandleWebSocket; pc is "read"
\* in conn.ReadJSON, "moved" in handleMakeMove after MakeMove returned a move,
\* "ended" after the move_result was broadcast, "closed" after the deferred
\* cleanup.  gameID and move are the locals of handleMakeMove; after is the
\* game as MakeMove left it (history).
Handler(playerID) ==
  [playerID |-> playerID, pc |-> "read", gameID |-> NilUUID, move |-> None,
   after |-> None]

\* The game a player's client names in its messages: the one it was matched
\* into.
GamesOf(playerID) ==
  { g \in DOMAIN games : FindPlayer(games[g], playerID, 1) # 0 }

\* handleMakeMove: MoveResultPayload as built from the *Game that GetGame
\* returned.
HandlerMoveResult(g, move) ==
  [Type |-> "move_result", GameID |-> g.ID, Winner |-> None, Reason |-> "",
   Duration |-> 0, IsDraw |-> FALSE, Move |-> move,
   IsGameOver |-> g.State = GameStateFinished, NextTurn |-> g.CurrentTurn]

\* The loop "for _, p := range ... " replaced by the two tests of
\* handleMakeMove: the *Player whose color is *Winner, nil without a winner.
WinnerPlayer(g) ==
  IF g.Winner = None THEN None
  ELSE IF g.Winner[1] = PlayerRed THEN Some(g.Players[1].ID)
  ELSE Some(g.Players[2].ID)

\* handleMakeMove: GameEndPayload.
HandlerGameEnd(g) ==
  [Type |-> "game_end", GameID |-> g.ID, Winner |-> WinnerPlayer(g),
   Reason |-> "game_completed", Duration |-> 0,
   IsDraw |-> g.Winner = None]

\* BroadcastToGame(gameID, message) as a whole: under the read lock, the
\* message is written to every connection bound to a player of the game.
Broadcast(gameID, message) ==
  IF gameID \in DOMAIN games /\ Receivers(gameID) # {}
    THEN Append(sent, message)
    ELSE sent

\* A connection is accepted and its first message is join_queue:
\* handleJoinQueue calls Matchmaker.JoinQueue and keeps the player's id.
HandlerJoinQueue ==
  /\ Len(conns) < 2
  /\ queue' = Append(queue, QueueEntry(NewPlayer(nextUUID, now), now))
  /\ timers' = timers @@ (nextUUID :> [state |-> "armed", at |-> now])
  /\ conns' = Append(conns, Handler(nextUUID))
  /\ nextUUID' = nextUUID + 1
  /\ UNCHANGED <<games, players, mutex, now, ret, played, engineVars,
                 serviceVars, statsVars, driverVars, lockVars, sent, notified, drivers,
                 due>>

\* handleMakeMove up to the return of Manager.MakeMove, whose results are kept
\* in the handler's locals.  On an error the failure is written to this
\* connection alone and the handler reads on.
HandlerMakeMove(h, lines) ==
  /\ conns[h].pc = "read"
  /\ mutex = "unlocked"
  /\ \E gameID \in GamesOf(conns[h].playerID) :
       \E column \in TryColumns(gameID, lines, 0) :
         \E r \in {ManagerMakeMove(games, gameID, conns[h].playerID, column,
                                   now)} :
           /\ games' = r.games
           /\ played' = IF r.err = ErrNone
                          THEN [played EXCEPT ![gameID] = Append(@, column)]
                          ELSE played
           /\ conns' = IF r.err = ErrNone
                         THEN [conns EXCEPT
                                 ![h].pc = "moved",
                                 ![h].gameID = gameID,
                                 ![h].move = r.move,
                                 ![h].after = Some(r.games[gameID])]
                         ELSE conns
  /\ UNCHANGED <<players, mutex, now, nextUUID, ret, engineVars, serviceVars, statsVars,
                 driverVars, lockVars, otherVars>>

\* handleMakeMove goes on: GetGame under the read lock returns the *Game of the
\* registry, the payload is built from its fields as they are now, and
\* BroadcastToGame sends it.
HandlerSendsResult(h) ==
  /\ conns[h].pc = "moved"
  /\ mutex = "unlocked"
  /\ sent' = Broadcast(conns[h].gameID,
                       HandlerMoveResult(games[conns[h].gameID],
                                         conns[h].move))
  /\ conns' = [conns EXCEPT ![h].pc = "ended"]
  /\ UNCHANGED <<games, players, mutex, now, nextUUID, ret, played,
                 engineVars, serviceVars, statsVars, driverVars, lockVars, matchVars>>

\* "if gameInstance.State == models.GameStateFinished": the game_end is built
\* and broadcast, and the handler returns to its loop.
HandlerSendsGameEnd(h) ==
  /\ conns[h].pc = "ended"
  /\ IF games[conns[h].gameID].State = GameStateFinished
       THEN /\ mutex = "unlocked"
            /\ sent' = Broadcast(conns[h].gameID,
                                 HandlerGameEnd(games[conns[h].gameID]))
       ELSE UNCHANGED sent
  /\ conns' = [conns EXCEPT ![h].pc = "read", ![h].gameID = NilUUID,
                            ![h].move = None, ![h].after = None]
  /\ UNCHANGED <<games, players, mutex, now, nextUUID, ret, played,
                 engineVars, serviceVars, statsVars, driverVars, lockVars, matchVars>>

\* A connection is accepted and its first message is reconnect, with the ids
\* of a game and of one of its players: handleReconnect finds the game, binds
\* the new connection with AddPlayerConnection, and the handler keeps the
\* player's id.
HandlerReconnect ==
  /\ Len(conns) < MaxConns
  /\ mutex = "unlocked"
  /\ \E gameID \in DOMAIN games, i \in 1..2 :
       LET playerID == games[gameID].Players[i].ID
       IN  /\ players' = Bind(players, playerID, gameID, now)
           /\ games' = [games EXCEPT
                          ![gameID] = MarkPlayer(@, playerID, TRUE, now)]
           /\ conns' = Append(conns, Handler(playerID))
  /\ UNCHANGED <<mutex, now, nextUUID, ret, played, engineVars, serviceVars, statsVars,
                 driverVars, lockVars, otherVars>>

\* conn.ReadJSON fails because the connection is gone: the loop breaks and the
\* handler calls RemovePlayerConnection(playerID), then
\* Matchmaker.LeaveQueue(playerID).
HandlerClose(h) ==
  /\ conns[h].pc = "read"
  /\ mutex = "unlocked"
  /\ LET playerID == conns[h].playerID
         i == FindEntry(queue, playerID, 1)
     IN  /\ IF playerID \in DOMAIN players
              THEN LET gameID == players[playerID].GameID
                   IN  /\ games' = IF gameID \in DOMAIN games
                                     THEN [games EXCEPT
                                             ![gameID] =
                                               MarkPlayer(@, playerID, FALSE,
                                                          now)]
                                     ELSE games
                       /\ players' = [p \in DOMAIN players \ {playerID} |->
                                        players[p]]
              ELSE UNCHANGED <<games, players>>
         /\ IF i = 0
              THEN UNCHANGED <<queue, timers>>
              ELSE /\ timers' = StopTimer(timers, playerID)
                   /\ queue' = RemoveAt(queue, i)
  /\ conns' = [conns EXCEPT ![h].pc = "closed"]
  /\ UNCHANGED <<mutex, now, nextUUID, ret, played, engineVars, serviceVars, statsVars,
                 driverVars, lockVars, sent, notified, drivers, due>>

HandlerMakeMoveStep == \E h \in Handles : HandlerMakeMove(h, HandlerLines)
HandlerOpeningStep == \E h \in Handles : HandlerMakeMove(h, ReconnectLines)
HandlerSendsResultStep == \E h \in Handles : HandlerSendsResult(h)
HandlerSendsGameEndStep == \E h \in Handles : HandlerSendsGameEnd(h)
HandlerCloseStep == \E h \in Handles : HandlerClose(h)

\* The matchmaker's ticker ticks once, when two have joined.
PairTick == Len(queue) = 2 /\ MatchTick

\* More than the grace period passes while a game is on.
HandlerClock ==
  /\ DOMAIN games # {}
  /\ now + GracePeriod + 1 <= MaxDriverTime
  /\ now' = now + GracePeriod + 1
  /\ UNCHANGED <<games, players, mutex, nextUUID, ret, played, engineVars,
                 serviceVars, statsVars, handlerVars, driverVars, lockVars, otherVars>>

\* Two players are matched and play, each through its connection.
NextHandlers ==
  \/ HandlerJoinQueue
  \/ PairTick
  \/ processQueue
  \/ HandlerMakeMoveStep
  \/ HandlerSendsResultStep
  \/ HandlerSendsGameEndStep

SpecHandlers == Init /\ [][NextHandlers]_vars

\* Connections are lost and replaced while the sweep runs.
NextReconnect ==
  \/ HandlerJoinQueue
  \/ PairTick
  \/ processQueue
  \/ HandlerOpeningStep
  \/ HandlerSendsResultStep
  \/ HandlerSendsGameEndStep
  \/ HandlerReconnect
  \/ HandlerCloseStep
  \/ cleanupDisconnectedPlayers
  \/ HandlerClock

SpecReconnect == Init /\ [][NextReconnect]_vars

---------------------------------------------------------------------------
(* The queue's two locks: Queue.mutex around the entries and
   QueueStats.mutex around the counters *)

\* The entries added to a queue in an exploration.
MaxJoined == 3

\* Queue.Add: the entry is sent on addChan.
QueueAdd(playerID) ==
  /\ stats.TotalJoined + Len(addChan) < MaxJoined
  /\ playerID \notin DOMAIN entries
  /\ \A i \in 1..Len(addChan) : addChan[i].PlayerID # playerID
  /\ addChan' = Append(addChan, ServiceQueueEntry(playerID, now))
  /\ UNCHANGED <<entries, removeChan, joinRequests, leaveRequests, calls,
                 botTimers, matches, pass, nextUUID, statsVars,
                 games, players, mutex, now, ret, played, probe, answer, sent,
                 matchVars, driverVars, lockVars, handlerVars>>

\* Queue.Remove: the id is sent on removeChan.
QueueRemove(playerID) ==
  /\ playerID \in DOMAIN entries
  /\ \A i \in 1..Len(removeChan) : removeChan[i] # playerID
  /\ removeChan' = Append(removeChan, playerID)
  /\ UNCHANGED <<entries, addChan, joinRequests, leaveRequests, calls,
                 botTimers, matches, pass, nextUUID, statsVars,
                 games, players, mutex, now, ret, played, probe, answer, sent,
                 matchVars, driverVars, lockVars, handlerVars>>

\* processAdd up to "q.stats.mutex.Lock()": the entry is received, q.mutex is
\* locked and the entry is stored.
processAddLock ==
  /\ addChan # << >>
  /\ entriesMutex = "unlocked"
  /\ entriesMutex' = "processAdd"
  /\ LET entry == Head(addChan)
     IN entries' = [p \in DOMAIN entries \cup {entry.PlayerID} |->
                      IF p = entry.PlayerID THEN entry ELSE entries[p]]
  /\ addChan' = Tail(addChan)
  /\ UNCHANGED <<removeChan, joinRequests, leaveRequests, calls, botTimers,
                 matches, pass, nextUUID, statsMutex, stats, getStats,
                 games, players, mutex, now, ret, played, probe, answer, sent,
                 matchVars, driverVars, lockVars, handlerVars>>

\* processAdd goes on: q.stats.mutex.Lock() waits for the readers, the counter
\* is incremented, and both locks are released.
processAddStats ==
  /\ entriesMutex = "processAdd"
  /\ statsMutex = {}
  /\ stats' = [stats EXCEPT !.TotalJoined = @ + 1]
  /\ entriesMutex' = "unlocked"
  /\ UNCHANGED <<serviceVars, statsMutex, getStats,
                 games, players, mutex, now, nextUUID, ret, played, probe,
                 answer, sent, matchVars, driverVars, lockVars, handlerVars>>

\* processRemove up to "q.stats.mutex.Lock()"; for an id that has no entry it
\* returns at once.
processRemoveLock ==
  /\ removeChan # << >>
  /\ entriesMutex = "unlocked"
  /\ LET playerID == Head(removeChan)
     IN IF playerID \in DOMAIN entries
        THEN /\ botTimers' = StopBotTimer(botTimers, entries[playerID].BotTimer)
             /\ entries' = [p \in DOMAIN entries \ {playerID} |-> entries[p]]
             /\ entriesMutex' = "processRemove"
        ELSE UNCHANGED <<entries, botTimers, entriesMutex>>
  /\ removeChan' = Tail(removeChan)
  /\ UNCHANGED <<addChan, joinRequests, leaveRequests, calls, matches, pass,
                 nextUUID, statsMutex, stats, getStats,
                 games, players, mutex, now, ret, played, probe, answer, sent,
                 matchVars, driverVars, lockVars, handlerVars>>

\* processRemove goes on in the same way.
processRemoveStats ==
  /\ entriesMutex = "processRemove"
  /\ statsMutex = {}
  /\ stats' = [stats EXCEPT !.TotalLeft = @ + 1]
  /\ entriesMutex' = "unlocked"
  /\ UNCHANGED <<serviceVars, statsMutex, getStats,
                 games, players, mutex, now, nextUUID, ret, played, probe,
                 answer, sent, matchVars, driverVars, lockVars, handlerVars>>

\* GetStats begins: q.stats.mutex.RLock().  No writer holds that lock between
\* actions.
GetStatsRLock(c) ==
  /\ getStats[c].pc = "idle"
  /\ statsMutex' = statsMutex \cup {c}
  /\ getStats' = [getStats EXCEPT ![c].pc = "size"]
  /\ UNCHANGED <<serviceVars, entriesMutex, stats,
                 games, players, mutex, now, nextUUID, ret, played, probe,
                 answer, sent, matchVars, driverVars, lockVars, handlerVars>>

\* GetStats goes on: q.mutex.RLock() waits for the writer, CurrentSize is set,
\* the copy is returned and the deferred RUnlock runs.
GetStatsSize(c) ==
  /\ getStats[c].pc = "size"
  /\ entriesMutex = "unlocked"
  /\ stats' = [stats EXCEPT !.CurrentSize = GetSize(entries)]
  /\ getStats' = [getStats EXCEPT ![c].pc = "idle", ![c].result = Some(stats')]
  /\ statsMutex' = statsMutex \ {c}
  /\ UNCHANGED <<serviceVars, entriesMutex,
                 games, players, mutex, now, nextUUID, ret, played, probe,
                 answer, sent, matchVars, driverVars, lockVars, handlerVars>>

QueueAddCall == \E playerID \in ServicePlayers : QueueAdd(playerID)
QueueRemoveCall == \E playerID \in ServicePlayers : QueueRemove(playerID)
GetStatsRLockStep == \E c \in StatsCallers : GetStatsRLock(c)
GetStatsSizeStep == \E c \in StatsCallers : GetStatsSize(c)

NextStats ==
  \/ QueueAddCall
  \/ QueueRemoveCall
  \/ processAddLock
  \/ processAddStats
  \/ processRemoveLock
  \/ processRemoveStats
  \/ GetStatsRLockStep
  \/ GetStatsSizeStep

SpecStats == Init /\ [][NextStats]_vars

---------------------------------------------------------------------------
(* Properties *)

Colors == {PlayerRed, PlayerYellow}
Cells == (0..(Rows - 1)) \X (0..(Cols - 1))

\* Four cells of the board in a line, all holding this color, from (row, col).
LineFrom(board, row, col, color) ==
  \E dir \in Directions :
    \A i \in 0..(WinLength - 1) :
      /\ InBoard(row + i * dir[1], col + i * dir[2])
      /\ board[row + i * dir[1]][col + i * dir[2]] = color + 1

HasLine(board, color) ==
  \E cell \in Cells : LineFrom(board, cell[1], cell[2], color)

Occupied(board) == \A cell \in Cells : board[cell[1]][cell[2]] # 0

MemberIDs(g) == { g.Players[i].ID : i \in 1..Len(g.Players) }

\* C1: while a session is Playing, a successful move is made by the color whose
\* turn it is, and the next successful move is made by the other color and the
\* other player; a move sent by the player who moved last does not succeed.
TurnsAlternate ==
  [][ /\ \A g \in DOMAIN games :
           games'[g].Board # games[g].Board =>
             /\ games'[g].LastMove[1].Color = games[g].CurrentTurn
             /\ games[g].LastMove # None =>
                  /\ games'[g].LastMove[1].Color # games[g].LastMove[1].Color
                  /\ games'[g].LastMove[1].PlayerID
                       # games[g].LastMove[1].PlayerID
      /\ ( /\ ret'.op = "MakeMove"
           /\ ret'.gameID \in DOMAIN games
           /\ games[ret'.gameID].State = GameStatePlaying
           /\ games[ret'.gameID].LastMove # None
           /\ ret'.playerID = games[ret'.gameID].LastMove[1].PlayerID )
         => ret'.err = ErrNotPlayerTurn
    ]_vars

\* C1 happens: after two moves the player who moved last is told it is not
\* their turn.
TurnsAlternateWitness ==
  /\ ret.op = "MakeMove"
  /\ ret.err = ErrNotPlayerTurn
  /\ ret.gameID \in DOMAIN games
  /\ Len(played[ret.gameID]) >= 2
  /\ games[ret.gameID].LastMove # None
  /\ ret.playerID = games[ret.gameID].LastMove[1].PlayerID

\* C2: a move request that returns an error leaves every session as it was:
\* board, current turn, state, winner, finish time and last move.
FailedMoveChangesNothing ==
  [][ (ret'.op = "MakeMove" /\ ret'.err # ErrNone) =>
        /\ games' = games
        /\ played' = played
        /\ ret'.move = None
    ]_vars

\* C2 happens: a member whose turn it is sends a full column of a game that
\* has a last move, and is refused.
FailedMoveWitness ==
  /\ ret.op = "MakeMove"
  /\ ret.err = ErrInvalidMove
  /\ ret.column \in 0..(Cols - 1)
  /\ games[ret.gameID].LastMove # None
  /\ games[ret.gameID].Board[0][ret.column] # 0

\* C3: a Finished session stays Finished, and its board, winner and finish
\* time never change, whatever is called: moves, connections, disconnections,
\* the sweep.
FinishedIsFinal ==
  [][ \A g \in DOMAIN games :
        games[g].State = GameStateFinished =>
          /\ games'[g].State = GameStateFinished
          /\ games'[g].Board = games[g].Board
          /\ games'[g].Winner = games[g].Winner
          /\ games'[g].FinishedAt = games[g].FinishedAt
    ]_vars

\* C3 happens: a game that ended in a draw was later sent a move, and a
\* player of it disconnected after the end and is past the grace period.
FinishedIsFinalWitness ==
  \E g \in DOMAIN games :
    /\ games[g].State = GameStateFinished
    /\ games[g].Winner = None
    /\ ret.op = "MakeMove" /\ ret.gameID = g /\ ret.err = ErrGameNotActive
    /\ \E i \in 1..2 :
         /\ Stale(games[g].Players[i], now)
         /\ games[g].Players[i].LastSeen >= games[g].FinishedAt[1]

\* C4: a cell that holds a piece holds the same piece ever after.
PiecesStay ==
  [][ \A g \in DOMAIN games : \A cell \in Cells :
        games[g].Board[cell[1]][cell[2]] # 0 =>
          games'[g].Board[cell[1]][cell[2]] = games[g].Board[cell[1]][cell[2]]
    ]_vars

\* C4 happens: a piece was dropped on top of a piece of the other color.
PiecesStayWitness ==
  \E g \in DOMAIN games : \E c \in 0..(Cols - 1) :
    /\ games[g].Board[Rows - 1][c] # 0
    /\ games[g].Board[Rows - 2][c] # 0
    /\ games[g].Board[Rows - 2][c] # games[g].Board[Rows - 1][c]

\* C5: a move that completes four cells of the mover's color in a line makes
\* the session Finished with that color as winner and the finish time set, and
\* leaves the turn where it was, also when the move fills the board; a color
\* that holds columns 0..3 of the bottom row after its move has won.
WinningMoveFinishes ==
  [][ \A g \in DOMAIN games :
        games'[g].Board # games[g].Board =>
          LET color == games'[g].LastMove[1].Color IN
          /\ HasLine(games'[g].Board, color) =>
               /\ games'[g].State = GameStateFinished
               /\ games'[g].Winner = Some(color)
               /\ games'[g].FinishedAt = Some(now)
               /\ games'[g].CurrentTurn = games[g].CurrentTurn
               /\ ret'.err = ErrNone
          /\ (\A c \in 0..(WinLength - 1) :
                games'[g].Board[Rows - 1][c] = color + 1) =>
               /\ games'[g].State = GameStateFinished
               /\ games'[g].Winner = Some(color)
    ]_vars

\* C5 happens: the 42nd piece filled the board and completed a line, and the
\* session records the win.
WinningMoveWitness ==
  \E g \in DOMAIN games :
    /\ Len(played[g]) = Rows * Cols
    /\ Occupied(games[g].Board)
    /\ games[g].LastMove # None
    /\ HasLine(games[g].Board, games[g].LastMove[1].Color)
    /\ games[g].Winner = Some(games[g].LastMove[1].Color)

\* The first cell, in rows from the top and columns from the left, from which
\* four cells of one color make a line.
LineStarts(board) ==
  { cell \in Cells : \E color \in Colors :
      LineFrom(board, cell[1], cell[2], color) }

FirstLineStart(board) ==
  CHOOSE cell \in LineStarts(board) :
    \A other \in LineStarts(board) :
      \/ cell[1] < other[1]
      \/ cell[1] = other[1] /\ cell[2] <= other[2]

\* C6: CheckWinner returns a color exactly when the board holds four cells of
\* that color in a line, nothing when there is no line, and with lines of both
\* colors the color at the first line start in scan order.
CheckWinnerFindsLines ==
  answer.fn = "CheckWinner" =>
    LET board == probe.Board IN
    /\ answer.winner = None <=> LineStarts(board) = {}
    /\ \A color \in Colors :
         answer.winner = Some(color) => HasLine(board, color)
    /\ \A color \in Colors :
         (HasLine(board, color) /\ ~HasLine(board, 1 - color))
           => answer.winner = Some(color)
    /\ LineStarts(board) # {} =>
         answer.winner =
           Some(board[FirstLineStart(board)[1]][FirstLineStart(board)[2]] - 1)

\* C6 happens: the board holds lines of both colors and CheckWinner answered
\* Yellow, whose line starts first.
CheckWinnerWitness ==
  /\ answer.fn = "CheckWinner"
  /\ HasLine(probe.Board, PlayerRed)
  /\ HasLine(probe.Board, PlayerYellow)
  /\ answer.winner = Some(PlayerYellow)

\* C7: after 42 moves with no winner the board is full and the session is
\* Finished without a winner; IsBoardFull holds only when all 42 cells are
\* occupied, and a move ends a session without a winner only when it fills the
\* last empty cell.
FullBoardIsDraw ==
  [][ \A g \in DOMAIN games :
        /\ (Len(played'[g]) = Rows * Cols /\ games'[g].Winner = None) =>
             /\ IsBoardFull(games'[g])
             /\ games'[g].State = GameStateFinished
        /\ IsBoardFull(games'[g]) => Occupied(games'[g].Board)
        /\ ( /\ games'[g].Board # games[g].Board
             /\ games'[g].State = GameStateFinished
             /\ games'[g].Winner = None ) =>
             /\ Occupied(games'[g].Board)
             /\ Len(played'[g]) = Rows * Cols
    ]_vars

\* C7 happens: 42 moves were applied and the session is a draw.
FullBoardIsDrawWitness ==
  \E g \in DOMAIN games :
    /\ Len(played[g]) = Rows * Cols
    /\ games[g].State = GameStateFinished
    /\ games[g].Winner = None
    /\ IsBoardFull(games[g])

\* C8: Game.MakeMove on a column in range whose top cell is empty fills the
\* lowest empty cell of the column with the mover's color, changes no other
\* cell and returns a Move with that row and column; on any other column it
\* returns nothing and changes nothing.  IsValidMove is true exactly for the
\* columns in range whose top cell is empty.
MoveFillsLowestEmptyCell ==
  answer.fn = "MakeMove" =>
    LET board == probe.Board
        column == answer.column
        legal == IF column \in 0..(Cols - 1) THEN board[0][column] = 0
                 ELSE FALSE
        after == answer.made.game.Board
    IN  /\ answer.valid = legal
        /\ legal =>
             /\ answer.made.move # None
             /\ answer.made.move[1].Column = column
             /\ answer.made.move[1].Color = answer.color
             /\ answer.made.move[1].Row \in 0..(Rows - 1)
             /\ board[answer.made.move[1].Row][column] = 0
             /\ \A r \in (answer.made.move[1].Row + 1)..(Rows - 1) :
                  board[r][column] # 0
             /\ after[answer.made.move[1].Row][column] = answer.color + 1
             /\ \A cell \in Cells \ {<<answer.made.move[1].Row, column>>} :
                  after[cell[1]][cell[2]] = board[cell[1]][cell[2]]
        /\ ~legal =>
             /\ answer.made.move = None
             /\ answer.made.game = probe

\* C8 happens: a piece was dropped on a column that already held pieces and
\* landed above them.
MoveFillsWitness ==
  /\ answer.fn = "MakeMove"
  /\ answer.valid
  /\ answer.made.move # None
  /\ answer.made.move[1].Row \in 1..(Rows - 2)

\* The failures of a move request, each stated on its own.
SessionNotFound(gameID) == gameID \notin DOMAIN games
SessionNotActive(gameID) == games[gameID].State # GameStatePlaying
PlayerNotInSession(gameID, playerID) == playerID \notin MemberIDs(games[gameID])
NotPlayersTurn(gameID, playerID) ==
  \A i \in 1..2 :
    games[gameID].Players[i].ID = playerID =>
      games[gameID].Players[i].Color # games[gameID].CurrentTurn
InvalidColumn(gameID, column) ==
  \/ column \notin 0..(Cols - 1)
  \/ games[gameID].Board[0][column] # 0

\* C9: a move request is answered with the first failure that applies, in the
\* order session not found, session not active, player not in session, not
\* the player's turn, invalid move, and succeeds when none applies.
ErrorsInOrder ==
  [][ ret'.op = "MakeMove" =>
        LET g == ret'.gameID
            p == ret'.playerID
        IN  ret'.err =
              IF SessionNotFound(g) THEN ErrGameNotFound
              ELSE IF SessionNotActive(g) THEN ErrGameNotActive
              ELSE IF PlayerNotInSession(g, p) THEN ErrPlayerNotInGame
              ELSE IF NotPlayersTurn(g, p) THEN ErrNotPlayerTurn
              ELSE IF InvalidColumn(g, ret'.column) THEN ErrInvalidMove
              ELSE ErrNone
    ]_vars

\* C9 happens: a stranger moving in a Finished session was told the session is
\* not active.
ErrorsInOrderWitness ==
  /\ ret.op = "MakeMove"
  /\ ret.gameID \in DOMAIN games
  /\ games[ret.gameID].State = GameStateFinished
  /\ ret.playerID \notin MemberIDs(games[ret.gameID])
  /\ ret.err = ErrGameNotActive

\* C10: CreateGame stores a Playing session with an empty board, player1 Red
\* with the opening turn and player2 Yellow; the players and their colors never
\* change afterwards, and the first move applied to a session is player1's.
CreateGameAssignsColors ==
  [][ \A g \in DOMAIN games' :
        IF g \notin DOMAIN games
          THEN /\ ret'.op = "CreateGame" /\ ret'.gameID = g
               /\ games'[g].ID = g
               /\ games'[g].State = GameStatePlaying
               /\ games'[g].Board = EmptyBoard
               /\ games'[g].Players[1].ID = ret'.withPlayers[1]
               /\ games'[g].Players[1].Color = PlayerRed
               /\ games'[g].Players[2].ID = ret'.withPlayers[2]
               /\ games'[g].Players[2].Color = PlayerYellow
               /\ games'[g].CurrentTurn = PlayerRed
               /\ games'[g].Winner = None
               /\ games'[g].LastMove = None
          ELSE /\ \A i \in 1..2 :
                    /\ games'[g].Players[i].ID = games[g].Players[i].ID
                    /\ games'[g].Players[i].Color = games[g].Players[i].Color
               /\ (games[g].LastMove = None /\ games'[g].LastMove # None) =>
                    /\ games'[g].LastMove[1].PlayerID = games[g].Players[1].ID
                    /\ games'[g].LastMove[1].Color = PlayerRed
    ]_vars

\* C10 happens: the first player opened as Red and the second player answered
\* as Yellow.
CreateGameWitness ==
  \E g \in DOMAIN games :
    /\ Len(played[g]) = 2
    /\ games[g].LastMove # None
    /\ games[g].LastMove[1].PlayerID = games[g].Players[2].ID
    /\ games[g].LastMove[1].Color = PlayerYellow
    /\ games[g].Players[1].Color = PlayerRed

\* The sweep forfeits game g in this step.
ForfeitStep(g) ==
  /\ mutex = "unlocked" /\ mutex' = "cleanup"
  /\ games[g].State = GameStatePlaying
  /\ games'[g].State = GameStateFinished

\* C11: when the sweep finds a Playing session with a player disconnected for
\* longer than the grace period, the session becomes Finished with the finish
\* time set and the other player recorded as winner; the winner is never left
\* empty in a forfeited session.
ForfeitRecordsWinner ==
  [][ \A g \in DOMAIN games :
        ForfeitStep(g) =>
          /\ games'[g].FinishedAt = Some(now)
          /\ games'[g].Winner # None
          /\ \E i \in 1..2 :
               /\ Stale(games[g].Players[i], now)
               /\ games'[g].Winner = Some(games[g].Players[3 - i].Color)
    ]_vars

\* C11 happens: a game was forfeited with both players disconnected, and has no
\* winner.
ForfeitWithoutWinner ==
  \E g \in DOMAIN games :
    /\ mutex = "cleanup"
    /\ games[g].State = GameStateFinished
    /\ games[g].FinishedAt = Some(now)
    /\ \A i \in 1..2 : ~games[g].Players[i].Connected
    /\ games[g].Winner = None

\* C12: the game_end message the sweep hands to BroadcastToGame for a forfeited
\* session names as winner the player recorded as the session's winner.
GameEndNamesWinner ==
  [][ \A g \in DOMAIN games :
        (ForfeitStep(g) /\ games'[g].Winner # None) =>
          /\ Len(sent') = Len(sent) + 1
          /\ sent'[Len(sent')].Type = "game_end"
          /\ sent'[Len(sent')].GameID = g
          /\ \E i \in 1..2 :
               /\ games'[g].Winner = Some(games'[g].Players[i].Color)
               /\ sent'[Len(sent')].Winner = Some(games'[g].Players[i].ID)
    ]_vars

\* C12 happens: a game was forfeited to its connected player, and the message
\* built for it names no winner.
GameEndWithoutWinner ==
  \E g \in DOMAIN games :
    /\ mutex = "cleanup"
    /\ games[g].State = GameStateFinished
    /\ games[g].Winner # None
    /\ sent # << >>
    /\ sent[Len(sent)].GameID = g
    /\ sent[Len(sent)].Winner = None

\* C13: RemovePlayerConnection unbinds the handle, clears the player's
\* connected flag and stamps its last-seen time, and leaves the state, board,
\* turn, winner and finish time of every session as they were; a Playing
\* session ends without a move only in a sweep that finds a player of it
\* disconnected for strictly longer than the grace period.
DisconnectDoesNotForfeit ==
  [][ /\ \A p \in DOMAIN players \ DOMAIN players' :
           /\ DOMAIN players' = DOMAIN players \ {p}
           /\ \A g \in DOMAIN games :
                /\ games'[g].State = games[g].State
                /\ games'[g].Board = games[g].Board
                /\ games'[g].CurrentTurn = games[g].CurrentTurn
                /\ games'[g].Winner = games[g].Winner
                /\ games'[g].FinishedAt = games[g].FinishedAt
                /\ \A i \in 1..2 :
                     IF g = players[p].GameID /\ games[g].Players[i].ID = p
                       THEN /\ ~games'[g].Players[i].Connected
                            /\ games'[g].Players[i].LastSeen = now
                       ELSE games'[g].Players[i] = games[g].Players[i]
      /\ \A g \in DOMAIN games :
           ( /\ games[g].State = GameStatePlaying
             /\ games'[g].State # GameStatePlaying
             /\ games'[g].Board = games[g].Board ) =>
             /\ mutex' = "cleanup"
             /\ \E i \in 1..2 :
                  /\ ~games[g].Players[i].Connected
                  /\ games[g].Players[i].ID \notin DOMAIN players
                  /\ now - games[g].Players[i].LastSeen > GracePeriod
    ]_vars

\* C13 happens: a player of a Playing session has been disconnected for
\* exactly the grace period, and the session is still Playing.
DisconnectedForGracePeriod ==
  \E g \in DOMAIN games : \E i \in 1..2 :
    /\ games[g].State = GameStatePlaying
    /\ ~games[g].Players[i].Connected
    /\ games[g].Players[i].ID \notin DOMAIN players
    /\ now - games[g].Players[i].LastSeen = GracePeriod
    /\ Len(played[g]) > 0

\* The player has an entry in the queue.
Queued(q, playerID) == \E i \in 1..Len(q) : q[i].Player.ID = playerID

\* The sessions the player was placed in.
SessionsOf(gs, playerID) ==
  { g \in DOMAIN gs : playerID \in MemberIDs(gs[g]) }

\* C14: an entry leaves the queue once, by a leave, by a pairing with a human
\* or by its bot timer, and the other two then do nothing for it: a player is
\* placed in a session only by the step that takes its entry from the queue,
\* is told so once, and is never in two sessions or in a session and in the
\* queue.
EntryConsumedOnce ==
  [][ \A p \in DOMAIN timers' :
        /\ Cardinality(SessionsOf(games', p)) <= 1
        /\ Cardinality({ i \in 1..Len(queue') : queue'[i].Player.ID = p }) <= 1
        /\ Cardinality({ i \in 1..Len(notified') :
                           notified'[i].PlayerID = p })
             = Cardinality(SessionsOf(games', p))
        /\ Queued(queue', p) => SessionsOf(games', p) = {}
        /\ SessionsOf(games', p) # SessionsOf(games, p) =>
             /\ p \in DOMAIN timers
             /\ Queued(queue, p)
        /\ (p \in DOMAIN timers /\ ~Queued(queue, p)) => ~Queued(queue', p)
    ]_vars

\* C14 happens: the timer of an entry had fired when the pass paired the entry
\* with a human; the callback then ran and found the entry gone.
EntryConsumedOnceWitness ==
  \E p \in DOMAIN timers : \E g \in SessionsOf(games, p) :
    /\ timers[p].state = "done"
    /\ \A i \in 1..2 : ~games[g].Players[i].IsBot
    /\ drivers = {}

\* The step gives the player a session with a bot.
EscalatedStep(p) ==
  \E g \in DOMAIN games' \ DOMAIN games :
    /\ p \in MemberIDs(games'[g])
    /\ \E i \in 1..2 : games'[g].Players[i].IsBot

Waiting(k) ==
  \E p \in DOMAIN timers :
    /\ Cardinality({ q \in DOMAIN timers : q <= p }) = k
    /\ Queued(queue, p)

\* The k-th player that joined is waiting, and its timer comes due before the
\* clock stops.
WaitingInTime(k) ==
  \E p \in DOMAIN timers :
    /\ Cardinality({ q \in DOMAIN timers : q <= p }) = k
    /\ Queued(queue, p)
    /\ timers[p].at + BotTimeout <= MaxMatchTime

LeaveCancelsEscalation ==
  [][ \A p \in DOMAIN timers :
        /\ ( /\ Queued(queue, p) /\ ~Queued(queue', p)
             /\ DOMAIN games' = DOMAIN games ) =>
             /\ timers'[p].state # "armed"
             /\ timers'[p].state = "fired" => timers[p].state = "fired"
             /\ notified' = notified
             /\ drivers' = drivers
        /\ (~Queued(queue, p) /\ SessionsOf(games, p) = {}) =>
             /\ ~Queued(queue', p)
             /\ SessionsOf(games', p) = {}
             /\ drivers' = drivers \/ timers'[p] = timers[p]
             /\ timers'[p].state # "armed"
    ]_vars

\* C17 happens: a player left while the callback of its timer was starting;
\* the callback has run, and the player is in no session.
LeaveCancelsWitness ==
  \E p \in DOMAIN timers :
    /\ timers[p].state = "done"
    /\ ~Queued(queue, p)
    /\ SessionsOf(games, p) = {}
    /\ \A i \in 1..Len(notified) : notified[i].PlayerID # p

\* The entries handleJoinRequest accepted for this player that nothing has
\* removed: on their way to the map, or in it.
AcceptedEntries(ch, es, playerID) ==
  { i \in DOMAIN ch : ch[i].PlayerID = playerID } \cup
  { p \in DOMAIN es : p = playerID }

\* The request worker takes a join request off joinRequests in this step.
JoinHandled == joinRequests # << >> /\ joinRequests' = Tail(joinRequests)

\* The player's bot timers that can still act.
LiveTimers(ts, playerID) ==
  { i \in DOMAIN ts : ts[i].PlayerID = playerID /\ ts[i].state = "armed" }

\* C18: a join request for a player id that has an accepted entry nothing has
\* removed is answered "Player already in queue", sends no second entry to
\* the queue and arms no second bot timer.
DuplicateJoinRejected ==
  [][ (/\ JoinHandled
       /\ AcceptedEntries(addChan, entries, Head(joinRequests).PlayerID) # {})
      => /\ calls'[Head(joinRequests).call].reply =
              [Success |-> FALSE, Message |-> "Player already in queue"]
         /\ addChan' = addChan
         /\ botTimers' = botTimers
    ]_vars

\* C18 happens otherwise: two joins for one player id have both returned the
\* worker's "Successfully joined queue", and both bot timers are armed.
DuplicateJoinAccepted ==
  /\ Len(calls) = 2
  /\ calls[1].PlayerID = calls[2].PlayerID
  /\ \A c \in 1..2 : /\ calls[c].op = "join"
                     /\ calls[c].pc = "returned"
                     /\ calls[c].err = ErrNone
                     /\ calls[c].reply.Success
  /\ Cardinality(LiveTimers(botTimers, calls[1].PlayerID)) = 2
  /\ removeChan = << >>
  /\ matches = << >>

\* The request worker takes a leave request off leaveRequests in this step.
LeaveHandled == leaveRequests # << >> /\ leaveRequests' = Tail(leaveRequests)

\* C19: a leave request is answered "Player not in queue", and changes
\* nothing, exactly when the player id has no accepted entry that nothing has
\* removed; a leave that follows an acknowledged join is accepted.
LeaveRejectedIffAbsent ==
  [][ LeaveHandled =>
        ( ( /\ calls'[Head(leaveRequests).call].reply =
                 [Success |-> FALSE, Message |-> "Player not in queue"]
            /\ removeChan' = removeChan )
          <=>
          AcceptedEntries(addChan, entries, Head(leaveRequests).PlayerID) = {} )
    ]_vars

\* C19 happens otherwise: a join was acknowledged, the leave of the same id
\* that followed was answered "Player not in queue", and the player is in the
\* queue with its bot timer armed.
LeaveRejectedWhileQueued ==
  /\ Len(calls) = 2
  /\ calls[1].op = "join" /\ calls[2].op = "leave"
  /\ calls[1].PlayerID = calls[2].PlayerID
  /\ \A c \in 1..2 : calls[c].pc = "returned" /\ calls[c].err = ErrNone
  /\ calls[1].reply.Success
  /\ calls[2].reply = [Success |-> FALSE, Message |-> "Player not in queue"]
  /\ calls[1].PlayerID \in DOMAIN entries
  /\ LiveTimers(botTimers, calls[1].PlayerID) # {}
  /\ removeChan = << >>

\* C20: a JoinQueue called while the queue holds MaxQueueSize entries returns
\* ErrQueueFull, and the queue never holds more than MaxQueueSize entries.
QueueWithinCapacity ==
  [][ /\ GetSize(entries') <= MaxQueueSize
      /\ ( /\ Len(calls') = Len(calls) + 1
           /\ calls'[Len(calls')].op = "join"
           /\ GetSize(entries) >= MaxQueueSize )
         => /\ calls'[Len(calls')].pc = "returned"
            /\ calls'[Len(calls')].err = ErrQueueFull
            /\ joinRequests' = joinRequests
    ]_vars

\* C20 happens otherwise: every join was acknowledged as successful and the
\* queue holds more than MaxQueueSize entries.
QueueOverCapacity ==
  /\ GetSize(entries) > MaxQueueSize
  /\ \A c \in DOMAIN calls : /\ calls[c].op = "join"
                             /\ calls[c].pc = "returned"
                             /\ calls[c].err = ErrNone
                             /\ calls[c].reply.Success
  /\ \A p \in DOMAIN entries : LiveTimers(botTimers, p) # {}

\* The c-th call of JoinQueue / LeaveQueue was made; it has returned.
Called(c) == c \in DOMAIN calls
Returned(c) == c \in DOMAIN calls /\ calls[c].pc = "returned"

\* C21: every call of JoinQueue and LeaveQueue returns, whatever the workers
\* do: also when they take no request and the request channel is full.
CallsReturn == \A c \in 1..MaxCalls : Called(c) ~> Returned(c)

\* C21 happens otherwise: the worker took nothing, an earlier call gave up
\* with ErrRequestTimeout and its request still fills the channel, and a
\* later call of the same kind waits to send.
CallWaitsToSend ==
  \E c, d \in DOMAIN calls :
    /\ c < d
    /\ calls[c].op = calls[d].op
    /\ calls[c].pc = "returned" /\ calls[c].err = ErrRequestTimeout
    /\ calls[c].reply = NoReply
    /\ calls[d].pc = "checked"
    /\ ~ENABLED (JoinSend(d) \/ LeaveSend(d))
    /\ ~ENABLED (Receive(d) \/ RequestTimeout(d))

\* The color that is not this one.
OtherColor(color) == CHOOSE c \in {PlayerRed, PlayerYellow} : c # color

\* The valid columns in which a piece of this color makes CheckWinner return
\* the color.
WinningColumns(g, color) ==
  { col \in 0..(Cols - 1) :
      /\ IsValidMove(g, col)
      /\ CheckWinner(GameMakeMove(g, col, color, 0).game) = Some(color) }

LowestOf(columns) == CHOOSE col \in columns : \A other \in columns : col <= other

\* C22: when some valid column wins for the bot, GetBestMove returns the
\* lowest such column, whatever the opponent threatens and wherever the
\* center is.
WinRule ==
  answer.fn = "GetBestMove" =>
    (WinningColumns(probe, answer.color) # {} =>
       answer.column = LowestOf(WinningColumns(probe, answer.color)))

\* C22 happens: the bot took its winning column although the opponent could
\* win in a lower column and the center column was free.
WinRuleWitness ==
  /\ answer.fn = "GetBestMove"
  /\ WinningColumns(probe, answer.color) # {}
  /\ answer.column \in WinningColumns(probe, answer.color)
  /\ \E col \in WinningColumns(probe, OtherColor(answer.color)) :
       col < answer.column
  /\ IsValidMove(probe, CenterColumns[1])
  /\ answer.column # CenterColumns[1]

\* C23: when no valid column wins for the bot and some valid column wins for
\* the opponent, GetBestMove returns the lowest such column.
BlockRule ==
  answer.fn = "GetBestMove" =>
    ( ( /\ WinningColumns(probe, answer.color) = {}
        /\ WinningColumns(probe, OtherColor(answer.color)) # {} )
      => answer.column =
           LowestOf(WinningColumns(probe, OtherColor(answer.color))) )

\* C23 happens: the opponent has three pieces stacked in column 4 and the
\* cell over them is free, the bot cannot win, the center column is free, and
\* the bot plays column 4.
BlockRuleWitness ==
  /\ answer.fn = "GetBestMove"
  /\ \A r \in 3..5 : probe.Board[r][4] = OtherColor(answer.color) + 1
  /\ probe.Board[2][4] = 0
  /\ WinningColumns(probe, answer.color) = {}
  /\ WinningColumns(probe, OtherColor(answer.color)) = {4}
  /\ IsValidMove(probe, CenterColumns[1])
  /\ answer.column = 4

\* The first valid column in the order 3, 2, 4, 1, 5, 0, 6.
CenterOrder == <<3, 2, 4, 1, 5, 0, 6>>
FirstInCenterOrder(g) ==
  LET i == CHOOSE i \in DOMAIN CenterOrder :
             /\ IsValidMove(g, CenterOrder[i])
             /\ \A j \in 1..(i - 1) : ~IsValidMove(g, CenterOrder[j])
  IN  CenterOrder[i]

\* C24: when no valid column wins for the bot or for the opponent,
\* GetBestMove returns the first valid column in the order 3, 2, 4, 1, 5, 0, 6
\* (and -1 when no column is valid).
CenterRule ==
  answer.fn = "GetBestMove" =>
    ( ( /\ WinningColumns(probe, answer.color) = {}
        /\ WinningColumns(probe, OtherColor(answer.color)) = {} )
      => /\ ValidMoves(probe) # {} => answer.column = FirstInCenterOrder(probe)
         /\ ValidMoves(probe) = {} => answer.column = -1 )

\* C24 happens: columns 3 and 2 are full, nobody can win at once, and the bot
\* plays column 4.
CenterRuleWitness ==
  /\ answer.fn = "GetBestMove"
  /\ WinningColumns(probe, answer.color) = {}
  /\ WinningColumns(probe, OtherColor(answer.color)) = {}
  /\ ~IsValidMove(probe, 3) /\ ~IsValidMove(probe, 2)
  /\ ValidMoves(probe) = {0, 1, 4, 5, 6}
  /\ answer.column = 4


\* C25: the driver of a bot game stops only when its session has left Playing,
\* and once the session is Finished, by a win, a draw or a forfeit, the driver
\* terminates.
DriverStops ==
  (\E d \in drivers : games[d.GameID].State = GameStateFinished)
    ~> (\A d \in drivers : DriverAt(d.GameID) = "done")

\* C25 happens: the sweep forfeited a bot game and stopped with the mutex held,
\* and the driver of the game stands at a call that waits for the mutex.
DriverWaitsAfterForfeit ==
  \E d \in drivers :
    /\ mutex = "cleanup"
    /\ games[d.GameID].State = GameStateFinished
    /\ games[d.GameID].Winner = Some(PlayerYellow)
    /\ DriverAt(d.GameID) \in {"ticker", "sleeping"}

\* C26: a message is written to a connection only while Manager.mutex is not
\* held: the step that writes starts with the mutex released and leaves it
\* released, so no peer that is slow to take a message keeps MakeMove,
\* CreateGame, AddPlayerConnection or RemovePlayerConnection waiting.
SendsOutsideLock ==
  [][ sent' # sent => (mutex = "unlocked" /\ mutex' = "unlocked") ]_vars

\* C26 happens: the driver's BroadcastToGame holds the read lock while it
\* writes the move_result to the connection of the human player, whose turn it
\* is in a game that goes on.
WriteUnderReadLock ==
  \E d \in drivers :
    /\ mutex = "broadcast"
    /\ DriverAt(d.GameID) = "move_result_write"
    /\ Receivers(d.GameID) = {1}
    /\ games[d.GameID].State = GameStatePlaying
    /\ games[d.GameID].CurrentTurn = Human(d.GameID).Color

\* The players of game g are two humans.
HumanGame(g) == ~g.Players[1].IsBot /\ ~g.Players[2].IsBot

\* Entry e joined the queue before entry f did: JoinQueue stamps JoinedAt and
\* takes the next id under the queue mutex.
JoinedBefore(e, f) ==
  /\ e.JoinedAt <= f.JoinedAt
  /\ e.Player.ID < f.Player.ID

\* C27: pairing is FIFO by join order: the two entries a matching pass pairs
\* in a human game are the two that joined first among the entries waiting at
\* that moment, the older of them is the first player of the game, and every
\* entry that stays in the queue joined after both.
FifoPairing ==
  [][ \A g \in DOMAIN games' \ DOMAIN games :
        HumanGame(games'[g]) =>
          \E i, j \in 1..Len(queue) :
            /\ queue[i].Player.ID = games'[g].Players[1].ID
            /\ queue[j].Player.ID = games'[g].Players[2].ID
            /\ JoinedBefore(queue[i], queue[j])
            /\ \A k \in 1..Len(queue) \ {i, j} :
                 \/ JoinedBefore(queue[j], queue[k])
                 \/ \E h \in DOMAIN games' \ DOMAIN games :
                      /\ h < g
                      /\ \E n \in 1..2 :
                           games'[h].Players[n].ID = queue[k].Player.ID
    ]_vars

\* C27 happens: a pass paired the two oldest of three waiting entries, the
\* older as first player, and the entry that joined last still waits.
FifoPairingWitness ==
  \E g \in DOMAIN games :
    /\ HumanGame(games[g])
    /\ games[g].Players[1].ID < games[g].Players[2].ID
    /\ Len(queue) = 1
    /\ queue[1].Player.ID > games[g].Players[2].ID
    /\ queue[1].Player.ID < g

\* The matches made for this player, by their place in the order of creation.
MatchesOf(playerID) ==
  { k \in DOMAIN matches :
      playerID \in {matches[k].Player1.ID, matches[k].Player2.ID} }

\* The joins of this player that handleJoinRequest accepted: it arms one bot
\* timer for each.
JoinsOf(playerID) ==
  { i \in DOMAIN botTimers : botTimers[i].PlayerID = playerID }

\* C28: each queue entry is consumed by at most one match: however the
\* matching pass, the queue worker and the bot timers interleave, a player is
\* in no more matches than it has joined the queue.
OneMatchPerJoin ==
  \A playerID \in ServicePlayers :
    Cardinality(MatchesOf(playerID)) <= Cardinality(JoinsOf(playerID))

\* C28 happens: a player that joined the queue once is in two matches, the
\* second made while its removal for the first was still in removeChan.
MatchedTwice ==
  \E playerID \in ServicePlayers :
    /\ Cardinality(JoinsOf(playerID)) = 1
    /\ MatchesOf(playerID) = {1, 2}
    /\ playerID \in DOMAIN entries
    /\ \E n \in DOMAIN removeChan : removeChan[n] = playerID

\* C29: the disconnect sweep always returns and releases Manager.mutex, also
\* when it forfeits a game and broadcasts the game_end: whenever the mutex is
\* held it is released later, so no call of the registry made after a forfeit
\* waits forever.
SweepReleasesMutex == (mutex # "unlocked") ~> (mutex = "unlocked")

\* C29 happens: the sweep forfeited a game to a player that is still connected
\* and holds the mutex, which the calls of that player now wait for.
SweepKeepsMutex ==
  \E g \in DOMAIN games :
    /\ mutex = "cleanup"
    /\ games[g].State = GameStateFinished
    /\ \E i \in 1..2 :
         /\ games[g].Players[i].Connected
         /\ games[g].Players[i].ID \in DOMAIN players
         /\ players[games[g].Players[i].ID].GameID = g

\* A call of the matchmaker holds Matchmaker.mutex and stands at a call of the
\* registry that cannot take Manager.mutex.
WaitsForRegistry ==
  /\ mutex \notin {"unlocked", "matchmaker"}
  /\ \/ queueMutex = "matchWithBot"
     \/ queueMutex = "processQueue" /\ Len(queue) >= 2

\* C30: queue operations never hold the session lock and session operations
\* never hold the queue lock: in no state does a task hold Matchmaker.mutex
\* and Manager.mutex together, or wait for one while it holds the other.
MutexesApart ==
  /\ ~(queueMutex # "unlocked" /\ mutex = "matchmaker")
  /\ ~WaitsForRegistry

\* C30 happens: processQueue holds Matchmaker.mutex and, inside CreateGame for
\* the two entries it pairs, Manager.mutex.
PassHoldsBoth ==
  /\ queueMutex = "processQueue"
  /\ mutex = "matchmaker"
  /\ Len(queue) >= 2

\* matchWithBot holds Matchmaker.mutex and waits for the Manager.mutex the
\* sweep keeps: every later JoinQueue and LeaveQueue waits behind it.
BotMatchWaitsForSweep ==
  /\ queueMutex = "matchWithBot"
  /\ mutex = "cleanup"

\* C33: the two bot modules are one design: for every board and bot color,
\* GetBestMove of internal/bot and GetBestMove of internal/game return the
\* same column.
BotModulesAgree ==
  answer.fn = "GetBestMove" => answer.botColumn = answer.column

\* C33 happens: with columns 3 and 2 full and no winning column for either
\* color, both modules answered column 4.
BotModulesAgreeWitness ==
  /\ answer.fn = "GetBestMove"
  /\ WinningColumns(answer.before, PlayerRed) = {}
  /\ WinningColumns(answer.before, PlayerYellow) = {}
  /\ ~IsValidMove(answer.before, 3)
  /\ ~IsValidMove(answer.before, 2)
  /\ answer.column = 4
  /\ answer.botColumn = 4

\* C36: GetBestMove returns a valid column whenever one is valid and -1 only
\* when the board is full, and its result is a function of the board and the
\* bot color: the random fallback has nothing left to choose.
BestMoveValidAndDetermined ==
  answer.fn = "GetBestMove" =>
    /\ Cardinality(answer.columns) = 1
    /\ answer.column = -1 <=> IsBoardFull(answer.before)
    /\ answer.column # -1 =>
         /\ answer.column \in 0..(Cols - 1)
         /\ answer.before.Board[0][answer.column] = 0

\* C36 happens: only column 6, the last of the order, is valid, neither color
\* can win there, and GetBestMove answered 6.
LastColumnOfOrder ==
  /\ answer.fn = "GetBestMove"
  /\ \A col \in 0..(Cols - 1) : answer.before.Board[0][col] = 0 <=> col = 6
  /\ WinningColumns(answer.before, PlayerRed) = {}
  /\ WinningColumns(answer.before, PlayerYellow) = {}
  /\ answer.columns = {6}

WinnerIsLastMover ==
  [][ \A g \in DOMAIN games' :
        /\ (g \in DOMAIN games /\ games'[g].Board = games[g].Board)
             \/ ~(HasLine(games'[g].Board, PlayerRed)
                    /\ HasLine(games'[g].Board, PlayerYellow))
        /\ (g \in DOMAIN games /\ games[g].Winner = None
              /\ games'[g].Winner # None) =>
             /\ ret'.op = "MakeMove" /\ ret'.gameID = g /\ ret'.err = ErrNone
             /\ games'[g].LastMove = ret'.move
             /\ games'[g].Winner = Some(ret'.move[1].Color)
             /\ games'[g].Winner = Some(games[g].CurrentTurn)
             /\ \E i \in 1..2 :
                  /\ games[g].Players[i].ID = ret'.playerID
                  /\ games'[g].Winner = Some(games[g].Players[i].Color)
    ]_vars

\* C35 happens: Yellow made the last move of a game and is its winner, with
\* three of Red in a line on the board.
WinnerIsLastMoverWitness ==
  \E g \in DOMAIN games :
    /\ games[g].State = GameStateFinished
    /\ games[g].Winner = Some(PlayerYellow)
    /\ games[g].LastMove # None
    /\ games[g].LastMove[1].Color = PlayerYellow
    /\ ret.op = "MakeMove" /\ ret.err = ErrNone
    /\ ret.playerID = games[g].Players[2].ID
    /\ HasLine(games[g].Board, PlayerYellow)

\* C31: the move_result broadcast for a move that was applied reports the
\* session as that move left it: is_game_over tells whether that move ended
\* the game and next_turn is the turn after that move, whatever was applied
\* before the handler built the message.
MoveResultReportsOwnMove ==
  [][ \A h \in Handles :
        ( /\ conns[h].pc = "moved"
          /\ conns'[h].pc = "ended"
          /\ Len(sent') > Len(sent) ) =>
          LET m == sent'[Len(sent')]
              after == conns[h].after[1]
          IN  /\ m.Move = conns[h].move
              /\ m.IsGameOver = (after.State = GameStateFinished)
              /\ m.NextTurn = after.CurrentTurn ]_vars

\* A move_result was broadcast that gives the next turn to the color of the
\* move it reports, in a game it reports as going on.
StaleMoveResult ==
  \E i \in 1..Len(sent) :
    /\ sent[i].Type = "move_result"
    /\ ~sent[i].IsGameOver
    /\ sent[i].NextTurn = sent[i].Move[1].Color

\* The game_end messages broadcast for game g.
GameEndsOf(g) ==
  { i \in 1..Len(sent) : sent[i].Type = "game_end" /\ sent[i].GameID = g }

\* C38: at most one game_end message is broadcast for a session, and the
\* handler that broadcasts it is one whose own move finished the session.
OneGameEnd ==
  [][ /\ \A g \in DOMAIN games : Cardinality(GameEndsOf(g)') <= 1
      /\ \A h \in Handles :
           ( /\ conns[h].pc = "ended"
             /\ conns'[h].pc = "read"
             /\ Len(sent') > Len(sent) ) =>
             conns[h].after[1].State = GameStateFinished ]_vars

\* Both players' handlers have broadcast a game_end for the same session.
TwoGameEnds ==
  \E g \in DOMAIN games :
    /\ games[g].State = GameStateFinished
    /\ Cardinality(GameEndsOf(g)) = 2
    /\ \A h \in Handles : conns[h].pc = "read"

\* The connection accepted last among those that carry this player's id: the
\* one the registry was last given for the player.
NewestHandle(playerID) ==
  CHOOSE h \in Handles :
    /\ conns[h].playerID = playerID
    /\ \A k \in Handles : conns[k].playerID = playerID => k <= h

\* An earlier connection of the player has been closed and cleaned up.
OldHandleClosed(playerID) ==
  \E k \in Handles :
    /\ conns[k].playerID = playerID
    /\ k < NewestHandle(playerID)
    /\ conns[k].pc = "closed"

\* C32: when a player whose connection was removed is bound again, the player
\* is marked connected with LastSeen refreshed, and the board, the turn, the
\* state and the winner of the session are what they were; the sweep forfeits
\* a session only for a player that is disconnected, and has been for longer
\* than the grace period, at the time of the sweep.
ReconnectRestores ==
  [][ \A g \in DOMAIN games :
        /\ \A i \in 1..2 :
             ( /\ games[g].Players[i].ID \notin DOMAIN players
               /\ games[g].Players[i].ID \in DOMAIN players' ) =>
               /\ games'[g].Players[i].Connected
               /\ games'[g].Players[i].LastSeen = now
               /\ players'[games[g].Players[i].ID].GameID = g
               /\ games'[g].Players[3 - i] = games[g].Players[3 - i]
               /\ games'[g].Board = games[g].Board
               /\ games'[g].CurrentTurn = games[g].CurrentTurn
               /\ games'[g].State = games[g].State
               /\ games'[g].Winner = games[g].Winner
               /\ games'[g].LastMove = games[g].LastMove
        /\ ForfeitStep(g) =>
             \E j \in 1..2 :
               /\ ~games[g].Players[j].Connected
               /\ games[g].Players[j].ID \notin DOMAIN players
               /\ now - games[g].Players[j].LastSeen > GracePeriod ]_vars

\* A player whose first connection was closed is bound again through a newer
\* one, more than the grace period has passed since, and the game, with moves
\* on its board, is still Playing.
ReconnectRestoresWitness ==
  \E g \in DOMAIN games, i \in 1..2 :
    LET p == games[g].Players[i]
    IN  /\ OldHandleClosed(p.ID)
        /\ conns[NewestHandle(p.ID)].pc = "read"
        /\ p.ID \in DOMAIN players
        /\ p.Connected
        /\ now - p.LastSeen > GracePeriod
        /\ games[g].State = GameStatePlaying
        /\ played[g] # << >>
        /\ mutex = "unlocked"

\* C39: the cleanup of a connection that was replaced leaves the player's
\* newer connection bound: a player whose newest connection is open is bound
\* in the registry and marked connected in its game.
NewHandleStaysBound ==
  \A g \in DOMAIN games, i \in 1..2 :
    LET p == games[g].Players[i]
    IN  conns[NewestHandle(p.ID)].pc # "closed" =>
          /\ p.ID \in DOMAIN players
          /\ p.Connected

\* A player reconnected, the cleanup of the replaced connection ran afterwards,
\* and the sweep forfeited the game against that player, whose newer connection
\* is open, while the opponent stayed connected.
ForfeitedWhileConnected ==
  \E g \in DOMAIN games, i \in 1..2 :
    LET p == games[g].Players[i]
    IN  /\ OldHandleClosed(p.ID)
        /\ conns[NewestHandle(p.ID)].pc # "closed"
        /\ p.ID \notin DOMAIN players
        /\ ~p.Connected
        /\ games[g].Players[3 - i].Connected
        /\ games[g].State = GameStateFinished
        /\ games[g].Winner = Some(games[g].Players[3 - i].Color)
        /\ mutex = "cleanup"

\* The queue's processor holds Queue.mutex and waits for the write lock of
\* QueueStats.mutex, while caller c of GetStats holds the read lock of
\* QueueStats.mutex and waits for Queue.mutex.
CyclicWait(c) ==
  /\ entriesMutex \in {"processAdd", "processRemove"}
  /\ c \in statsMutex
  /\ getStats[c].pc = "size"

\* C40: Queue.GetStats running with processAdd or processRemove cannot
\* deadlock: there is no cyclic wait between the lock of the entries and the
\* lock of the statistics.
NoCyclicWait == \A c \in StatsCallers : ~CyclicWait(c)

\* processAdd has stored an entry and waits for the statistics lock that a
\* caller of GetStats holds while it waits for the lock of the entries; neither
\* can take its next step, and an entry sent after it stays on the channel.
StatsDeadlock ==
  /\ entriesMutex = "processAdd"
  /\ CyclicWait("caller1")
  /\ addChan # << >>
  /\ ~ENABLED processAddStats
  /\ ~ENABLED GetStatsSizeStep
  /\ ~ENABLED processAddLock

\* Game g is a bot game that is Playing with the bot to move.
BotsTurn(g) ==
  \E d \in drivers :
    /\ d.GameID = g
    /\ games[g].State = GameStatePlaying
    /\ games[g].CurrentTurn
         = games[g].Players[BotIndex(games[g], d.BotID)].Color

\* The bot game created last is Playing with the bot to move.  (A game starts
\* with the human to move, so this ends when a newer bot game is created.)
LastBotsTurn ==
  \E g \in DOMAIN games :
    /\ \A x \in DOMAIN games : x <= g
    /\ BotsTurn(g)

\* C34: in a bot game that is Playing with the bot to move, the driver
\* eventually gets a move accepted, or the game leaves Playing: the human is
\* not left waiting on the bot forever.  The driver submits a move only from
\* the point it reaches after it saw the game Playing on the bot's turn.
BotAnswers ==
  /\ LastBotsTurn ~> ~LastBotsTurn
  /\ [][ \A d \in drivers :
           ( /\ games'[d.GameID].LastMove # games[d.GameID].LastMove
             /\ games'[d.GameID].LastMove[1].PlayerID = d.BotID ) =>
             /\ DriverAt(d.GameID) = "sleeping"
             /\ BotsTurn(d.GameID) ]_vars

\* The sweep forfeited one bot game and stopped with the registry's mutex held,
\* while another bot game is Playing with the bot to move and its driver stands
\* at a call that waits for the mutex.
BotWaitsBehindSweep ==
  \E d \in drivers, f \in drivers :
    /\ f.GameID # d.GameID
    /\ mutex = "cleanup"
    /\ games[f.GameID].State = GameStateFinished
    /\ BotsTurn(d.GameID)
    /\ DriverAt(d.GameID) \in {"ticker", "sleeping"}

===========================================================================
